---- MODULE Spec2Model ----
(***************************************************************************)
(* The resume-generation server (src/unnamed/part_003): the handlers of    *)
(* POST /api/generate and POST /api/refine, the two-tier provider call     *)
(* (openai.responses.create with a JSON schema, then                       *)
(* openai.chat.completions.create in JSON mode), JSON.parse of the         *)
(* provider's text, the "sanity defaults" applied to the parsed value and  *)
(* the response sent by res.json.                                          *)
(*                                                                         *)
(* Spec is the server taking one request after another, with the clock and *)
(* the SDK's timeout of each provider call.  SpecSilentProvider is the     *)
(* server with a provider that never answers.  SpecConcurrent is the       *)
(* server with two requests in progress whose handlers interleave at their *)
(* awaits.                                                                 *)
(*                                                                         *)
(* The browser client (src/unnamed/part_002, with the renderer of          *)
(* src/unnamed/part_000) is the variable ui.  SpecUI is the client         *)
(* generating, browsing its history and exporting, with the abort timer of *)
(* callGenerate; SpecTabs is the client with its tabs clicked.             *)
(***************************************************************************)
EXTENDS Integers, Sequences, FiniteSets, TLC

(***************************************************************************)
(* JavaScript / JSON values.  Every value is a pair <<kind, payload>>, so  *)
(* that values of different kinds can be compared.  An array keeps its     *)
(* elements and, apart from them, the named properties assigned to it (a   *)
(* JavaScript array is an object).                                         *)
(***************************************************************************)
Undefined == <<"undefined", 0>>

Null == <<"null", 0>>

Num(n) == <<"num", n>>

Str(s) == <<"str", s>>

Arr(s) == <<"arr", [elems |-> s, props |-> <<>>]>>

Obj(f) == <<"obj", f>>

\* typeof v
TypeOf(v) ==
  CASE v[1] = "undefined" -> "undefined"
    [] v[1] = "num" -> "number"
    [] v[1] = "str" -> "string"
    [] OTHER -> "object"

\* ToBoolean(v): what `!v` and `v || d` test
Truthy(v) ==
  CASE v[1] \in {"undefined", "null"} -> FALSE
    [] v[1] = "num" -> v[2] # 0
    [] v[1] = "str" -> v[2] # ""
    [] OTHER -> TRUE

\* v == null (the test of `??` and `?.`)
Nullish(v) == v[1] \in {"undefined", "null"}

\* a || d
OrElse(a, d) == IF Truthy(a) THEN a ELSE d

\* a ?? d
Coalesce(a, d) == IF Nullish(a) THEN d ELSE a

\* v.k for a v that is neither null nor undefined
Get(v, k) ==
  CASE v[1] = "obj" -> IF k \in DOMAIN v[2] THEN v[2][k] ELSE Undefined
    [] v[1] = "arr" -> IF k \in DOMAIN v[2].props THEN v[2].props[k] ELSE Undefined
    [] OTHER -> Undefined

\* v?.k
OptGet(v, k) == IF Nullish(v) THEN Undefined ELSE Get(v, k)

\* v?.[i], i counted from 0
OptIndex(v, i) ==
  IF v[1] = "arr" /\ i < Len(v[2].elems) THEN v[2].elems[i + 1] ELSE Undefined

\* the function f with f[k] set to x
Put(f, k, x) == [j \in (DOMAIN f) \cup {k} |-> IF j = k THEN x ELSE f[j]]

\* v.k = x in strict mode (the sources are ES modules): <<"ok", v'>>, or
\* <<"throw", message>> when v is null, undefined or a primitive
SetProp(v, k, x) ==
  CASE v[1] = "obj" -> <<"ok", Obj(Put(v[2], k, x))>>
    [] v[1] = "arr" -> <<"ok", <<"arr", [elems |-> v[2].elems, props |-> Put(v[2].props, k, x)]>> >>
    [] Nullish(v) -> <<"throw", "Cannot set properties of " \o v[1]>>
    [] OTHER -> <<"throw", "Cannot create property on " \o TypeOf(v)>>

WhiteSpace == {" ", "\n", "\t"}

RECURSIVE TrimStart(_)
TrimStart(s) ==
  IF Len(s) > 0 /\ SubSeq(s, 1, 1) \in WhiteSpace
  THEN TrimStart(SubSeq(s, 2, Len(s)))
  ELSE s

RECURSIVE TrimEnd(_)
TrimEnd(s) ==
  IF Len(s) > 0 /\ SubSeq(s, Len(s), Len(s)) \in WhiteSpace
  THEN TrimEnd(SubSeq(s, 1, Len(s) - 1))
  ELSE s

\* Trim with the fault of not trimming at all
TrimOmitted(s) == s

\* String.prototype.trim
Trim(s) == TrimEnd(TrimStart(s))

\* JSON.stringify followed by the reader's JSON.parse: what of a value
\* crosses the wire.  The named properties of an array are not serialized,
\* nor are the properties of an object whose value is undefined.
RECURSIVE ToWire(_)
ToWire(v) ==
  CASE v[1] = "obj" ->
         LET keep == {k \in DOMAIN v[2] : v[2][k] # Undefined}
         IN  Obj([k \in keep |-> ToWire(v[2][k])])
    [] v[1] = "arr" ->
         Arr([i \in 1..Len(v[2].elems) |->
                IF v[2].elems[i] = Undefined THEN Null ELSE ToWire(v[2].elems[i])])
    [] OTHER -> v

(***************************************************************************)
(* The texts a provider answers with, and JSON.parse on each of them.      *)
(* ParseTable holds the texts that are JSON, each with the value           *)
(* JSON.parse returns for it; on BadTexts JSON.parse throws a SyntaxError. *)
(***************************************************************************)
ParseTable ==
  "null" :>
      Null @@
  "5" :>
      Num(5) @@
  "\"n/a\"" :>
      Str("n/a") @@
  "[]" :>
      Arr(<<>>) @@
  "{}" :>
      Obj(<<>>) @@
  "{\"experience\":null,\"skills\":null}" :>
      Obj([experience |-> Null, skills |-> Null]) @@
  "{\"experience\":\"\",\"skills\":0}" :>
      Obj([experience |-> Str(""), skills |-> Num(0)]) @@
  "{\"experience\":\"n/a\",\"skills\":{}}" :>
      Obj([experience |-> Str("n/a"), skills |-> Obj(<<>>)]) @@
  "{\"experience\":5,\"skills\":{\"core\":\"TS\"}}" :>
      Obj([experience |-> Num(5), skills |-> Obj([core |-> Str("TS")])]) @@
  "{\"experience\":{},\"skills\":\"none\"}" :>
      Obj([experience |-> Obj(<<>>), skills |-> Str("none")]) @@
  "{\"name\":\"Ann\",\"title\":\"Engineer\",\"skills\":{\"core\":[\"TS\"]},\"experience\":[]}" :>
      Obj([name |-> Str("Ann"), title |-> Str("Engineer"), skills |-> Obj([core |-> Arr(<<Str("TS")>>)]), experience |-> Arr(<<>>)]) @@
  "{\"name\":\"\",\"title\":\"\",\"contact\":{},\"summary\":\"\",\"skills\":{\"core\":[]},\"experience\":[]}" :>
      Obj([name |-> Str(""), title |-> Str(""), contact |-> Obj(<<>>), summary |-> Str(""), skills |-> Obj([core |-> Arr(<<>>)]), experience |-> Arr(<<>>)]) @@
  "{\"name\":\"Ann\",\"title\":\"Engineer\",\"contact\":{},\"summary\":\"Builds things.\",\"skills\":{\"core\":[]},\"experience\":[]}" :>
      Obj([name |-> Str("Ann"), title |-> Str("Engineer"), contact |-> Obj(<<>>), summary |-> Str("Builds things."), skills |-> Obj([core |-> Arr(<<>>)]), experience |-> Arr(<<>>)]) @@
  "{\"name\":\"Ann\",\"title\":\"Engineer\",\"contact\":{},\"summary\":\"Builds things.\",\"skills\":{\"core\":[]},\"experience\":[],\"hobbies\":[\"chess\"]}" :>
      Obj([name |-> Str("Ann"), title |-> Str("Engineer"), contact |-> Obj(<<>>), summary |-> Str("Builds things."), skills |-> Obj([core |-> Arr(<<>>)]), experience |-> Arr(<<>>), hobbies |-> Arr(<<Str("chess")>>)]) @@
  "{\"name\":\"Ann\",\"title\":\"Engineer\",\"contact\":{\"email\":\"a@x.io\"},\"summary\":\"Builds things.\",\"skills\":{\"core\":[\"TS\"]},\"experience\":[{\"company\":\"Acme\",\"role\":\"Dev\",\"bullets\":[\"Shipped X\",\"Cut cost 20%\"]}],\"education\":[{\"school\":\"UCB\"}]}" :>
      Obj([name |-> Str("Ann"), title |-> Str("Engineer"), contact |-> Obj([email |-> Str("a@x.io")]), summary |-> Str("Builds things."), skills |-> Obj([core |-> Arr(<<Str("TS")>>)]), experience |-> Arr(<<Obj([company |-> Str("Acme"), role |-> Str("Dev"), bullets |-> Arr(<<Str("Shipped X"), Str("Cut cost 20%")>>)])>>), education |-> Arr(<<Obj([school |-> Str("UCB")])>>)])

BadTexts ==
  { "",
    "Sorry, I cannot help with that.",
    "{\"name\":\"Ann\",\"title\":" }

Texts == (DOMAIN ParseTable) \cup BadTexts

\* JSON.parse(text): <<"ok", value>>, or <<"throw", message>> for the SyntaxError
JSONParse(text) ==
  IF text \in DOMAIN ParseTable
  THEN <<"ok", ParseTable[text]>>
  ELSE IF text = ""
       THEN <<"throw", "Unexpected end of JSON input">>
       ELSE <<"throw", "Unexpected token in JSON">>

(***************************************************************************)
(* The schema sent with the schema-constrained call.                       *)
(***************************************************************************)
StringSchema == [type |-> "string"]

StringList == [type |-> "array", items |-> StringSchema]

buildJsonSchema ==
  [ type |-> "object",
    additionalProperties |-> FALSE,
    required |-> {"name", "title", "contact", "summary", "skills", "experience"},
    properties |->
      [ name |-> StringSchema,
        title |-> StringSchema,
        contact |->
          [ type |-> "object",
            additionalProperties |-> FALSE,
            properties |->
              [ email |-> StringSchema, phone |-> StringSchema,
                location |-> StringSchema, website |-> StringSchema,
                linkedin |-> StringSchema, github |-> StringSchema ] ],
        summary |-> StringSchema,
        skills |->
          [ type |-> "object",
            additionalProperties |-> FALSE,
            required |-> {"core"},
            properties |->
              [ core |-> StringList, tools |-> StringList, other |-> StringList ] ],
        experience |->
          [ type |-> "array",
            items |->
              [ type |-> "object",
                additionalProperties |-> FALSE,
                required |-> {"company", "role", "bullets"},
                properties |->
                  [ company |-> StringSchema, role |-> StringSchema,
                    location |-> StringSchema, startDate |-> StringSchema,
                    endDate |-> StringSchema, bullets |-> StringList ] ] ],
        projects |->
          [ type |-> "array",
            items |->
              [ type |-> "object",
                additionalProperties |-> FALSE,
                required |-> {"name", "description"},
                properties |->
                  [ name |-> StringSchema, description |-> StringSchema,
                    bullets |-> StringList, link |-> StringSchema,
                    technologies |-> StringList ] ] ],
        education |->
          [ type |-> "array",
            items |->
              [ type |-> "object",
                additionalProperties |-> FALSE,
                required |-> {"school"},
                properties |->
                  [ school |-> StringSchema, degree |-> StringSchema,
                    graduationDate |-> StringSchema, details |-> StringList ] ] ],
        certifications |-> StringList ] ]

\* v is an instance of the schema s (type, required, additionalProperties,
\* properties and items, the keywords buildJsonSchema uses)
RECURSIVE Validates(_, _)
Validates(s, v) ==
  CASE s.type = "string" -> v[1] = "str"
    [] s.type = "array" ->
         /\ v[1] = "arr"
         /\ \A i \in 1..Len(v[2].elems) : Validates(s.items, v[2].elems[i])
    [] s.type = "object" ->
         /\ v[1] = "obj"
         /\ ("required" \in DOMAIN s) => (s.required \subseteq DOMAIN v[2])
         /\ (~s.additionalProperties) => (DOMAIN v[2] \subseteq DOMAIN s.properties)
         /\ \A k \in (DOMAIN v[2]) \cap (DOMAIN s.properties) :
              Validates(s.properties[k], v[2][k])
    [] OTHER -> FALSE

\* the text is JSON and the value it holds matches the resume schema
MatchesSchema(text) ==
  /\ text \in DOMAIN ParseTable
  /\ Validates(buildJsonSchema, ParseTable[text])

(***************************************************************************)
(* The server's environment and the request in progress.                   *)
(***************************************************************************)
VARIABLES
  apiKey,        \* process.env.OPENAI_API_KEY: Undefined or a string
  OPENAI_MODEL,  \* the model name, a string
  files,         \* aboutme.txt at the two candidate paths: Undefined (no file) or its content
  op,            \* the handler running: "none", "generate" or "refine"
  body,          \* req.body of the request in progress
  pc,            \* "idle", "responses" (awaiting openai.responses.create),
                 \* "chat" (awaiting openai.chat.completions.create) or "done"
  prompt,        \* the inputs of the prompts of the request: <<aboutMe, targetText>> or <<resume, feedback>>
  calls,         \* the provider calls issued for the request, in order
  tier1,         \* how openai.responses.create settled: <<"none", 0>>, <<"reject", message>> or <<"resolve", response>>
  tier2,         \* how openai.chat.completions.create settled, likewise
  parsed,        \* `parsed` as first assigned: <<"none", 0>>, <<"ok", value>>, or <<"throw", message>> when the two-tier call threw
  res,           \* the response sent: [status, body], status 0 while none is sent
  now,           \* milliseconds since the request was received
  issued,        \* the value of now when the provider call in flight was issued
  parked,        \* the other request in progress, the one whose handler is not running
  ui             \* the browser client: its elements, the variables of renderApp and its handlers

vars == <<apiKey, OPENAI_MODEL, files, op, body, pc, prompt, calls, tier1, tier2, parsed, res,
          now, issued, parked, ui>>

None == <<"none", 0>>

NoResponse == [status |-> 0, body |-> Undefined]

\* new OpenAI({ ..., timeout: 180_000 }): the milliseconds a provider call may take
timeout == 180000

\* the step by which the clock advances
TickMs == 90000

\* a request for which no handler has run yet
NoRequest ==
  [ op |-> "none", body |-> Undefined, pc |-> "idle", prompt |-> <<Undefined, Undefined>>,
    calls |-> <<>>, tier1 |-> None, tier2 |-> None, parsed |-> None, res |-> NoResponse,
    now |-> 0, issued |-> 0 ]

\* process.env.OPENAI_API_KEY
ApiKeys == {Undefined, Str(""), Str("sk-test")}

\* process.env.OPENAI_MODEL
EnvModels == {Undefined, Str("GPT-5-mini"), Str("gpt-4o-mini")}

\* the contents of ../aboutme.txt and ./aboutme.txt
FileStates ==
  { <<Undefined, Undefined>>,
    <<Undefined, Str("I am Ann, an engineer.")>>,
    <<Str(" \n"), Str("I am Ann, an engineer.")>>,
    <<Str("Ann. Engineer."), Str("I am Ann, an engineer.")>>,
    <<Str(""), Undefined>> }

TextInputs == {Undefined, Str(""), Str("  "), Num(42)}

GenerateBodies ==
  { Obj([targetText |-> t, aboutMe |-> a]) :
      t \in TextInputs \cup {Str(" Engineer at Acme ")},
      a \in TextInputs \cup {Str("I am Bo.")} }

RefineBodies ==
  { Obj([resume |-> r, feedback |-> f]) :
      r \in { Undefined, Null, Str("resume"), Arr(<<>>), Obj(<<>>),
              ParseTable["{\"name\":\"Ann\",\"title\":\"Engineer\",\"contact\":{},\"summary\":\"Builds things.\",\"skills\":{\"core\":[]},\"experience\":[]}"] },
      f \in TextInputs \cup {Str("too long, condense")} }

\* the error the SDK throws when its timeout passes with no answer
TimeoutRejection == <<"reject", "Request timed out.">>

\* an error thrown by the SDK: the API's refusal, or the request timeout
RejectMessages == {"400 Unsupported parameter", TimeoutRejection[2]}

\* the texts found only in output[0].content[0].text
NestedTexts == {"{}", "Sorry, I cannot help with that."}

\* how openai.responses.create can settle
Tier1Outcomes ==
  {<<"reject", m>> : m \in RejectMessages}
    \cup {<<"resolve", Obj([output_text |-> Str(t)])>> : t \in Texts}
    \cup {<<"resolve", Obj([output |-> Arr(<<>>)])>>}
    \cup {<<"resolve", Obj([output |-> Arr(<<Obj([content |-> Arr(<<Obj([text |-> Str(t)])>>)])>>)])>> :
            t \in NestedTexts}

\* how openai.chat.completions.create can settle
Tier2Outcomes ==
  {<<"reject", m>> : m \in RejectMessages}
    \cup {<<"resolve", Obj([choices |-> Arr(<<Obj([message |-> Obj([content |-> Str(t)])])>>)])>> :
            t \in Texts}
    \cup {<<"resolve", Obj([choices |-> Arr(<<Obj([message |-> Obj([content |-> Null])])>>)])>>,
          <<"resolve", Obj([choices |-> Arr(<<>>)])>>}

(***************************************************************************)
(* The browser client as renderApp leaves it.                              *)
(***************************************************************************)
\* the click handlers of the Generate button that can be running at once
MaxHandlers == 2

\* the items the history collection holds at most
MaxHistory == 1

\* previewInner.innerHTML as renderApp sets it
Placeholder == "<div class=\"preview-placeholder\">Generate a resume to get started</div>"

\* renderTabs: the class lists of the three tabs and of the three pages
renderTabs ==
  [ tabs  |-> [about |-> {"tab", "active"}, generate |-> {"tab"}, template |-> {"tab"}],
    pages |-> [about |-> {"tab-page"}, generate |-> {"tab-page", "hidden"},
               template |-> {"tab-page", "hidden"}] ]

\* renderTabs of the client with two tabs
renderTabsTwoTab ==
  [ tabs  |-> [about |-> {"tab", "active"}, generate |-> {"tab"}],
    pages |-> [about |-> {"tab-page"}, generate |-> {"tab-page", "hidden"}] ]

\* a click handler of the Generate button that is not running
IdleHandler == [pc |-> "idle", targetText |-> "", aboutMe |-> "", elapsed |-> 0, html |-> ""]

\* renderApp(root): the elements and the variables of the closure; the first
\* loadHistory() is in flight
renderApp ==
  [ textarea       |-> "",
    generateBtn    |-> [disabled |-> FALSE, textContent |-> "Generate Resume"],
    handlers       |-> [h \in 1..MaxHandlers |-> IdleHandler],
    lastResumeHtml |-> "",
    previewInner   |-> Placeholder,
    alert          |-> Undefined,
    historyList    |-> <<>>,
    loading        |-> TRUE,
    exported       |-> None,
    tabs           |-> renderTabs.tabs,
    pages          |-> renderTabs.pages,
    tabsTwoTab     |-> renderTabsTwoTab.tabs,
    pagesTwoTab    |-> renderTabsTwoTab.pages,
    resumeHistory  |-> <<>> ]

Init ==
  /\ apiKey \in ApiKeys
  /\ OPENAI_MODEL \in {OrElse(m, Str("gpt-5"))[2] : m \in EnvModels}
  /\ files \in FileStates
  /\ op = "none"
  /\ body = Undefined
  /\ pc = "idle"
  /\ prompt = <<Undefined, Undefined>>
  /\ calls = <<>>
  /\ tier1 = None
  /\ tier2 = None
  /\ parsed = None
  /\ res = NoResponse
  /\ now = 0
  /\ issued = 0
  /\ parked = NoRequest
  /\ ui = renderApp

Upper == "ABCDEFGHIJKLMNOPQRSTUVWXYZ"

Lower == "abcdefghijklmnopqrstuvwxyz"

\* the character c in lower case
ToLower(c) ==
  IF \E i \in 1..Len(Upper) : SubSeq(Upper, i, i) = c
  THEN LET i == CHOOSE j \in 1..Len(Upper) : SubSeq(Upper, j, j) = c
       IN  SubSeq(Lower, i, i)
  ELSE c

\* useResponses with the fault of a test that minds the case: /^gpt-5/
useResponsesCaseSensitive ==
  LET p == "gpt-5"
  IN  /\ Len(OPENAI_MODEL) >= Len(p)
      /\ SubSeq(OPENAI_MODEL, 1, Len(p)) = p

\* useResponses with the fault of a test for any gpt model: /^gpt-/i
useResponsesAnyGpt ==
  LET p == "gpt-"
  IN  /\ Len(OPENAI_MODEL) >= Len(p)
      /\ \A i \in 1..Len(p) : ToLower(SubSeq(OPENAI_MODEL, i, i)) = SubSeq(p, i, i)

\* /^gpt-5/i.test(OPENAI_MODEL)
useResponses ==
  LET p == "gpt-5"
  IN  /\ Len(OPENAI_MODEL) >= Len(p)
      /\ \A i \in 1..Len(p) : ToLower(SubSeq(OPENAI_MODEL, i, i)) = SubSeq(p, i, i)

\* readAboutMeFromDisk with the fault of testing the content without trimming
\* it: if (content) return content
readAboutMeFromDiskUntrimmed ==
  LET hit == {i \in 1..Len(files) : files[i] # Undefined /\ Truthy(files[i])}
  IN  IF hit = {}
      THEN Null
      ELSE files[CHOOSE i \in hit : \A j \in hit : i <= j]

\* the first candidate file with content that is not blank, else null
readAboutMeFromDisk ==
  LET hit == {i \in 1..Len(files) :
                files[i] # Undefined /\ Truthy(Str(Trim(files[i][2])))}
  IN  IF hit = {}
      THEN Null
      ELSE files[CHOOSE i \in hit : \A j \in hit : i <= j]

(***************************************************************************)
(* The prompts.                                                            *)
(***************************************************************************)
\* the template object `schema` of buildUserPrompt: 'string' for a text,
\* 'string?' for one that may be left out
schema ==
  Obj([
    name |-> Str("string"),
    title |-> Str("string"),
    contact |-> Obj([
      email |-> Str("string?"),
      phone |-> Str("string?"),
      location |-> Str("string?"),
      website |-> Str("string?"),
      linkedin |-> Str("string?"),
      github |-> Str("string?") ]),
    summary |-> Str("string"),
    skills |-> Obj([
      core |-> Arr(<<Str("string")>>),
      tools |-> Arr(<<Str("string?")>>),
      other |-> Arr(<<Str("string?")>>) ]),
    experience |-> Arr(<<Obj([
        company |-> Str("string"),
        role |-> Str("string"),
        location |-> Str("string?"),
        startDate |-> Str("string?"),
        endDate |-> Str("string?"),
        bullets |-> Arr(<<Str("string")>>) ])>>),
    projects |-> Arr(<<Obj([
        name |-> Str("string"),
        description |-> Str("string"),
        bullets |-> Arr(<<Str("string?")>>),
        link |-> Str("string?"),
        technologies |-> Arr(<<Str("string?")>>) ])>>),
    education |-> Arr(<<Obj([
        school |-> Str("string"),
        degree |-> Str("string?"),
        graduationDate |-> Str("string?"),
        details |-> Arr(<<Str("string?")>>) ])>>),
    certifications |-> Arr(<<Str("string?")>>) ])

\* JSON.stringify(value, null, 2) on the values the handlers pass to it: the
\* template, and the resumes of the refine requests
StringifyTable ==
  schema :>
      "{\n  \"name\": \"string\",\n  \"title\": \"string\",\n  \"contact\": {\n    \"email\": \"string?\",\n    \"phone\": \"string?\",\n    \"location\": \"string?\",\n    \"website\": \"string?\",\n    \"linkedin\": \"string?\",\n    \"github\": \"string?\"\n  },\n  \"summary\": \"string\",\n  \"skills\": {\n    \"core\": [\n      \"string\"\n    ],\n    \"tools\": [\n      \"string?\"\n    ],\n    \"other\": [\n      \"string?\"\n    ]\n  },\n  \"experience\": [\n    {\n      \"company\": \"string\",\n      \"role\": \"string\",\n      \"location\": \"string?\",\n      \"startDate\": \"string?\",\n      \"endDate\": \"string?\",\n      \"bullets\": [\n        \"string\"\n      ]\n    }\n  ],\n  \"projects\": [\n    {\n      \"name\": \"string\",\n      \"description\": \"string\",\n      \"bullets\": [\n        \"string?\"\n      ],\n      \"link\": \"string?\",\n      \"technologies\": [\n        \"string?\"\n      ]\n    }\n  ],\n  \"education\": [\n    {\n      \"school\": \"string\",\n      \"degree\": \"string?\",\n      \"graduationDate\": \"string?\",\n      \"details\": [\n        \"string?\"\n      ]\n    }\n  ],\n  \"certifications\": [\n    \"string?\"\n  ]\n}" @@
  Arr(<<>>) :>
      "[]" @@
  Obj(<<>>) :>
      "{}" @@
  Obj([name |-> Str("Ann"), title |-> Str("Engineer"), contact |-> Obj(<<>>), summary |-> Str("Builds things."), skills |-> Obj([core |-> Arr(<<>>)]), experience |-> Arr(<<>>)]) :>
      "{\n  \"name\": \"Ann\",\n  \"title\": \"Engineer\",\n  \"contact\": {},\n  \"summary\": \"Builds things.\",\n  \"skills\": {\n    \"core\": []\n  },\n  \"experience\": []\n}"

JSONStringify(value) == StringifyTable[value]

\* lines.join(sep)
RECURSIVE Join(_, _)
Join(lines, sep) ==
  IF lines = <<>>
  THEN ""
  ELSE IF Len(lines) = 1
       THEN lines[1]
       ELSE lines[1] \o sep \o Join(Tail(lines), sep)

buildSystemPrompt ==
  Join(<<
         "You are an expert resume writer optimizing resumes for ATS systems.",
         "Generate a concise, accomplishment-driven resume based on the candidate's background and the target role.",
         "CRITICAL: The resume MUST fit on EXACTLY ONE PAGE when rendered. Aim to fill 95-100% of the page.",
         "Return ONLY strict JSON matching the provided schema. No prose outside JSON.",
         "Guidelines:",
         "- Use short, impact-focused bullet points starting with strong verbs.",
         "- Quantify results where possible (%, $, time saved).",
         "- Prioritize keywords relevant to the target job description.",
         "- Avoid flowery language, keep sentences scannable.",
         "- Never invent facts beyond the candidate input; fill unknowns with best-effort from about me.",
         "- Target 3-5 experience items with 3-4 bullets each for optimal one-page fit.",
         "- IMPORTANT: For experiences at \"Oracle\" and \"UC Berkeley Consulting Club\", include ONLY ONE short, concise bullet point each.",
         "- IMPORTANT: In the projects section, include ONLY the \"Original Joe's\" project.",
         "- Keep summary to 2-3 sentences maximum.",
         "- Be concise but comprehensive - every word should add value." >>, "\n")

\* buildUserPrompt with the fault of a history kept at module level: the user
\* text of the other request in progress, once built, is added to the prompt
buildUserPromptWithHistory(aboutMe, targetText) ==
  Join(<<
         "ABOUT_ME:",
         aboutMe,
         "",
         "TARGET_COMPANY_AND_JOB:",
         targetText,
         "",
         "Output strict JSON for this TypeScript-like schema:",
         JSONStringify(schema),
         "",
         "Rules:",
         "- Return JSON only. No backticks. No commentary.",
         "- Keep bullet items crisp, 1 line each.",
         "- Align content with target role keywords." >>
         \o (IF parked.calls = <<>> THEN <<>> ELSE <<"", "PREVIOUS:", parked.calls[1].user>>),
       "\n")

\* aboutMe and targetText are the characters of the two strings
buildUserPrompt(aboutMe, targetText) ==
  Join(<<
         "ABOUT_ME:",
         aboutMe,
         "",
         "TARGET_COMPANY_AND_JOB:",
         targetText,
         "",
         "Output strict JSON for this TypeScript-like schema:",
         JSONStringify(schema),
         "",
         "Rules:",
         "- Return JSON only. No backticks. No commentary.",
         "- Keep bullet items crisp, 1 line each.",
         "- Align content with target role keywords." >>, "\n")

\* the system text of POST /api/refine
systemPrompt ==
  Join(<<
         "You are an expert resume writer refining a resume to fit exactly one page.",
         "Your task is to adjust the existing resume based on feedback about its length.",
         "Return ONLY strict JSON matching the provided schema. No prose outside JSON.",
         "Guidelines:",
         "- When told to CONDENSE: shorten bullet points, reduce wordiness, combine similar points, remove less impactful items.",
         "- When told to EXPAND: elaborate on achievements, add quantifiable details, expand descriptions.",
         "- Keep the same structure and sections, just adjust content length.",
         "- Preserve all key accomplishments and quantifiable results.",
         "- Maintain professional tone and ATS optimization." >>, "\n")

\* the user text of POST /api/refine: resume is the value received, feedback the
\* characters of the string
userPrompt(resume, feedback) ==
  Join(<<
         "Current resume (JSON):",
         JSONStringify(resume),
         "",
         "FEEDBACK:",
         feedback,
         "",
         "Return the refined resume as strict JSON only. No backticks. No commentary." >>, "\n")

\* TimedOut with the fault of a timer that has run out as soon as it is set
TimedOutAtOnce == now - issued >= 0

\* the SDK's timer of the call in flight has run out
TimedOut == now - issued >= timeout

\* the call in flight can settle as o: with the timeout error once the timer
\* has run out, and in any other way before that
Settles(o) == (o = TimeoutRejection) <=> TimedOut

\* the arguments of openai.responses.create
ResponsesCall(system, user) ==
  [ api |-> "responses.create", format |-> "json_schema", model |-> OPENAI_MODEL,
    system |-> system, user |-> user, schema |-> buildJsonSchema ]

\* the arguments of openai.chat.completions.create
ChatCall(system, user) ==
  [ api |-> "chat.completions.create", format |-> "json_object", model |-> OPENAI_MODEL,
    system |-> system, user |-> user ]

\* ResponsesText with the fault of an empty default: ... ?? ''
ResponsesTextEmptyDefault(response) ==
  Coalesce(Get(response, "output_text"),
           Coalesce(OptGet(OptIndex(OptGet(OptIndex(Get(response, "output"), 0), "content"), 0), "text"),
                    Str("")))

\* ResponsesText with the fault of never reading response.output_text
ResponsesTextNestedOnly(response) ==
  Coalesce(OptGet(OptIndex(OptGet(OptIndex(Get(response, "output"), 0), "content"), 0), "text"),
           Str("{}"))

\* response.output_text ?? response.output?.[0]?.content?.[0]?.text ?? '{}'
ResponsesText(response) ==
  Coalesce(Get(response, "output_text"),
           Coalesce(OptGet(OptIndex(OptGet(OptIndex(Get(response, "output"), 0), "content"), 0), "text"),
                    Str("{}")))

\* completion.choices[0]?.message?.content || '{}'
ChatContent(completion) ==
  OrElse(OptGet(OptGet(OptIndex(Get(completion, "choices"), 0), "message"), "content"),
         Str("{}"))

\* the try block around openai.responses.create: the parsed value, or what it threw
TryResponses(o) ==
  IF o[1] = "reject" THEN <<"throw", o[2]>> ELSE JSONParse(ResponsesText(o[2])[2])

\* the awaited openai.chat.completions.create and the JSON.parse after it
TryChat(o) ==
  IF o[1] = "reject" THEN <<"throw", o[2]>> ELSE JSONParse(ChatContent(o[2])[2])

\* SanityDefaults with the fault of enforcing a bullet count: every experience
\* entry keeps its first bullet only
SanityDefaultsOneBullet(p) ==
  IF Nullish(p)
  THEN <<"throw", "Cannot read properties of " \o p[1]>>
  ELSE LET exp == OrElse(Get(p, "experience"), Arr(<<>>))
           cut(x) == IF x[1] = "obj" /\ Get(x, "bullets")[1] = "arr"
                        /\ Len(Get(x, "bullets")[2].elems) > 1
                     THEN Obj(Put(x[2], "bullets", Arr(<<Get(x, "bullets")[2].elems[1]>>)))
                     ELSE x
           capped == IF exp[1] = "arr"
                     THEN Arr([i \in 1..Len(exp[2].elems) |-> cut(exp[2].elems[i])])
                     ELSE exp
           e == SetProp(p, "experience", capped)
       IN  IF e[1] = "throw"
           THEN e
           ELSE SetProp(e[2], "skills",
                        OrElse(Get(e[2], "skills"), Obj([core |-> Arr(<<>>)])))

\* SanityDefaults with the fault of wrapping: parsed.skills = { core: parsed.skills || [] }
SanityDefaultsWrapping(p) ==
  IF Nullish(p)
  THEN <<"throw", "Cannot read properties of " \o p[1]>>
  ELSE LET e == SetProp(p, "experience", OrElse(Get(p, "experience"), Arr(<<>>)))
       IN  IF e[1] = "throw"
           THEN e
           ELSE SetProp(e[2], "skills",
                        Obj([core |-> OrElse(Get(e[2], "skills"), Arr(<<>>))]))

\* parsed.experience = parsed.experience || []; parsed.skills = parsed.skills || { core: [] }
SanityDefaults(p) ==
  IF Nullish(p)
  THEN <<"throw", "Cannot read properties of " \o p[1]>>
  ELSE LET e == SetProp(p, "experience", OrElse(Get(p, "experience"), Arr(<<>>)))
       IN  IF e[1] = "throw"
           THEN e
           ELSE SetProp(e[2], "skills",
                        OrElse(Get(e[2], "skills"), Obj([core |-> Arr(<<>>)])))

\* res.status(status).json({ error: message })
ErrorResponse(status, message) == [status |-> status, body |-> Obj([error |-> Str(message)])]

\* what the handler answers once the two-tier call has returned or thrown:
\* the defaults and res.json({ resume: parsed }), or the catch clause
Answer(r) ==
  IF r[1] = "throw"
  THEN ErrorResponse(500, OrElse(Str(r[2]), Str("Internal server error"))[2])
  ELSE LET d == SanityDefaults(r[2])
       IN  IF d[1] = "throw"
           THEN ErrorResponse(500, OrElse(Str(d[2]), Str("Internal server error"))[2])
           ELSE [status |-> 200, body |-> ToWire(Obj([resume |-> d[2]]))]

(***************************************************************************)
(* POST /api/generate                                                      *)
(***************************************************************************)
\* Generate with the fault of checking the API key before the input
GenerateKeyFirst(b) ==
  /\ pc = "idle"
  /\ op' = "generate"
  /\ body' = b
  /\ LET targetText == Get(b, "targetText")
         aboutMe == Get(b, "aboutMe")
         noAbout == \/ ~Truthy(aboutMe)
                    \/ TypeOf(aboutMe) # "string"
                    \/ Len(Trim(aboutMe[2])) = 0
         about == IF noAbout THEN OrElse(readAboutMeFromDisk, Str("")) ELSE aboutMe
         reply == IF ~Truthy(apiKey)
                  THEN ErrorResponse(500, "OPENAI_API_KEY is not configured in server/.env")
                  ELSE IF \/ ~Truthy(targetText)
                          \/ TypeOf(targetText) # "string"
                          \/ Len(Trim(targetText[2])) = 0
                  THEN ErrorResponse(400, "Missing targetText")
                  ELSE IF ~Truthy(about)
                  THEN ErrorResponse(400, "Missing aboutMe content")
                  ELSE NoResponse
     IN  IF reply # NoResponse
         THEN /\ res' = reply
              /\ pc' = "done"
              /\ UNCHANGED <<prompt, calls, issued>>
         ELSE /\ res' = NoResponse
              /\ prompt' = <<about, targetText>>
              /\ LET system == buildSystemPrompt
                     user == buildUserPrompt(about[2], targetText[2])
                 IN  calls' = <<IF useResponses
                                THEN ResponsesCall(system, user)
                                ELSE ChatCall(system, user)>>
              /\ pc' = IF useResponses THEN "responses" ELSE "chat"
              /\ issued' = now
  /\ UNCHANGED <<ui, apiKey, OPENAI_MODEL, files, tier1, tier2, parsed, now, parked>>

\* the handler up to its first await of the provider: validation, the
\* about-me fallback, the API-key check, and the first call of generateWithOpenAI
Generate(b) ==
  /\ pc = "idle"
  /\ op' = "generate"
  /\ body' = b
  /\ LET targetText == Get(b, "targetText")
         aboutMe == Get(b, "aboutMe")
         noAbout == \/ ~Truthy(aboutMe)
                    \/ TypeOf(aboutMe) # "string"
                    \/ Len(Trim(aboutMe[2])) = 0
         about == IF noAbout THEN OrElse(readAboutMeFromDisk, Str("")) ELSE aboutMe
         reply == IF \/ ~Truthy(targetText)
                     \/ TypeOf(targetText) # "string"
                     \/ Len(Trim(targetText[2])) = 0
                  THEN ErrorResponse(400, "Missing targetText")
                  ELSE IF ~Truthy(about)
                  THEN ErrorResponse(400, "Missing aboutMe content")
                  ELSE IF ~Truthy(apiKey)
                  THEN ErrorResponse(500, "OPENAI_API_KEY is not configured in server/.env")
                  ELSE NoResponse
     IN  IF reply # NoResponse
         THEN /\ res' = reply
              /\ pc' = "done"
              /\ UNCHANGED <<prompt, calls, issued>>
         ELSE /\ res' = NoResponse
              /\ prompt' = <<about, targetText>>
              /\ LET system == buildSystemPrompt
                     user == buildUserPrompt(about[2], targetText[2])
                 IN  calls' = <<IF useResponses
                                THEN ResponsesCall(system, user)
                                ELSE ChatCall(system, user)>>
              /\ pc' = IF useResponses THEN "responses" ELSE "chat"
              /\ issued' = now
  /\ UNCHANGED <<ui, apiKey, OPENAI_MODEL, files, tier1, tier2, parsed, now, parked>>

\* GenerateResponsesSettled with the fault of JSON.parse standing after the
\* try block: a rejection falls back, a text that is not JSON is thrown to the handler
GenerateResponsesSettledParseOutsideTry(o) ==
  /\ pc = "responses"
  /\ op = "generate"
  /\ Settles(o)
  /\ tier1' = o
  /\ IF o[1] = "resolve"
     THEN /\ parsed' = TryResponses(o)
          /\ res' = Answer(TryResponses(o))
          /\ pc' = "done"
          /\ UNCHANGED <<calls, issued>>
     ELSE /\ calls' = Append(calls, ChatCall(calls[1].system, calls[1].user))
          /\ pc' = "chat"
          /\ issued' = now
          /\ UNCHANGED <<parsed, res>>
  /\ UNCHANGED <<ui, apiKey, OPENAI_MODEL, files, op, body, prompt, tier2, now, parked>>

\* GenerateResponsesSettled with the fault of giving up the Responses API for
\* good: after a failed call OPENAI_MODEL is set to a chat model
GenerateResponsesSettledSwitchingModel(o) ==
  /\ pc = "responses"
  /\ op = "generate"
  /\ Settles(o)
  /\ tier1' = o
  /\ LET r == TryResponses(o)
     IN  IF r[1] = "ok"
         THEN /\ parsed' = r
              /\ res' = Answer(r)
              /\ pc' = "done"
              /\ UNCHANGED <<calls, issued, OPENAI_MODEL>>
         ELSE /\ OPENAI_MODEL' = "gpt-4o-mini"
              /\ calls' = Append(calls, [ChatCall(calls[1].system, calls[1].user)
                                           EXCEPT !.model = "gpt-4o-mini"])
              /\ pc' = "chat"
              /\ issued' = now
              /\ UNCHANGED <<parsed, res>>
  /\ UNCHANGED <<ui, apiKey, files, op, body, prompt, tier2, now, parked>>

\* generateWithOpenAI once openai.responses.create has settled: it returns
\* the parsed text, or catches the failure and calls chat.completions
GenerateResponsesSettled(o) ==
  /\ pc = "responses"
  /\ op = "generate"
  /\ Settles(o)
  /\ tier1' = o
  /\ LET r == TryResponses(o)
     IN  IF r[1] = "ok"
         THEN /\ parsed' = r
              /\ res' = Answer(r)
              /\ pc' = "done"
              /\ UNCHANGED <<calls, issued>>
         ELSE /\ calls' = Append(calls, ChatCall(calls[1].system, calls[1].user))
              /\ pc' = "chat"
              /\ issued' = now
              /\ UNCHANGED <<parsed, res>>
  /\ UNCHANGED <<ui, apiKey, OPENAI_MODEL, files, op, body, prompt, tier2, now, parked>>

\* GenerateChatSettled with the fault of retrying: a failed
\* chat.completions call is issued once more
GenerateChatSettledRetrying(o) ==
  /\ pc = "chat"
  /\ op = "generate"
  /\ Settles(o)
  /\ tier2' = o
  /\ IF TryChat(o)[1] = "throw" /\ Len(calls) < 3
     THEN /\ calls' = Append(calls, ChatCall(calls[1].system, calls[1].user))
          /\ issued' = now
          /\ UNCHANGED <<parsed, res, pc>>
     ELSE /\ parsed' = TryChat(o)
          /\ res' = Answer(TryChat(o))
          /\ pc' = "done"
          /\ UNCHANGED <<calls, issued>>
  /\ UNCHANGED <<ui, apiKey, OPENAI_MODEL, files, op, body, prompt, tier1, now, parked>>

\* generateWithOpenAI once openai.chat.completions.create has settled, and
\* the rest of the handler
GenerateChatSettled(o) ==
  /\ pc = "chat"
  /\ op = "generate"
  /\ Settles(o)
  /\ tier2' = o
  /\ parsed' = TryChat(o)
  /\ res' = Answer(TryChat(o))
  /\ pc' = "done"
  /\ UNCHANGED <<ui, apiKey, OPENAI_MODEL, files, op, body, prompt, calls, tier1, now, issued, parked>>

(***************************************************************************)
(* POST /api/refine                                                        *)
(***************************************************************************)
\* the handler up to its first await of the provider
Refine(b) ==
  /\ pc = "idle"
  /\ op' = "refine"
  /\ body' = b
  /\ LET resume == Get(b, "resume")
         feedback == Get(b, "feedback")
         reply == IF ~Truthy(resume) \/ TypeOf(resume) # "object"
                  THEN ErrorResponse(400, "Missing resume object")
                  ELSE IF ~Truthy(feedback) \/ TypeOf(feedback) # "string"
                  THEN ErrorResponse(400, "Missing feedback")
                  ELSE IF ~Truthy(apiKey)
                  THEN ErrorResponse(500, "OPENAI_API_KEY is not configured in server/.env")
                  ELSE NoResponse
     IN  IF reply # NoResponse
         THEN /\ res' = reply
              /\ pc' = "done"
              /\ UNCHANGED <<prompt, calls, issued>>
         ELSE /\ res' = NoResponse
              /\ prompt' = <<resume, feedback>>
              /\ calls' = <<IF useResponses
                            THEN ResponsesCall(systemPrompt, userPrompt(resume, feedback[2]))
                            ELSE ChatCall(systemPrompt, userPrompt(resume, feedback[2]))>>
              /\ pc' = IF useResponses THEN "responses" ELSE "chat"
              /\ issued' = now
  /\ UNCHANGED <<ui, apiKey, OPENAI_MODEL, files, tier1, tier2, parsed, now, parked>>

\* RefineResponsesSettled with the fault of a catch clause that falls back on a
\* rejection only: a text that is not JSON is thrown on to the handler's catch
RefineResponsesSettledStrictParse(o) ==
  /\ pc = "responses"
  /\ op = "refine"
  /\ Settles(o)
  /\ tier1' = o
  /\ LET r == TryResponses(o)
     IN  IF r[1] = "ok" \/ o[1] = "resolve"
         THEN /\ parsed' = r
              /\ res' = Answer(r)
              /\ pc' = "done"
              /\ UNCHANGED <<calls, issued>>
         ELSE /\ calls' = Append(calls, ChatCall(calls[1].system, calls[1].user))
              /\ pc' = "chat"
              /\ issued' = now
              /\ UNCHANGED <<parsed, res>>
  /\ UNCHANGED <<ui, apiKey, OPENAI_MODEL, files, op, body, prompt, tier2, now, parked>>

\* the try block of the handler once openai.responses.create has settled:
\* parsed is assigned, or the catch clause calls chat.completions
RefineResponsesSettled(o) ==
  /\ pc = "responses"
  /\ op = "refine"
  /\ Settles(o)
  /\ tier1' = o
  /\ LET r == TryResponses(o)
     IN  IF r[1] = "ok"
         THEN /\ parsed' = r
              /\ res' = Answer(r)
              /\ pc' = "done"
              /\ UNCHANGED <<calls, issued>>
         ELSE /\ calls' = Append(calls, ChatCall(calls[1].system, calls[1].user))
              /\ pc' = "chat"
              /\ issued' = now
              /\ UNCHANGED <<parsed, res>>
  /\ UNCHANGED <<ui, apiKey, OPENAI_MODEL, files, op, body, prompt, tier2, now, parked>>

\* RefineChatSettled with the fault of refining in place: the parsed fields are
\* assigned to the resume of the request, Object.assign(resume, parsed)
RefineChatSettledInPlace(o) ==
  /\ pc = "chat"
  /\ op = "refine"
  /\ Settles(o)
  /\ tier2' = o
  /\ parsed' = TryChat(o)
  /\ res' = Answer(TryChat(o))
  /\ pc' = "done"
  /\ body' = IF TryChat(o)[1] = "ok" /\ TryChat(o)[2][1] = "obj"
             THEN LET prior == Get(body, "resume")
                      new == TryChat(o)[2][2]
                      merged == IF prior[1] = "obj"
                                THEN [k \in (DOMAIN prior[2]) \cup (DOMAIN new) |->
                                        IF k \in DOMAIN new THEN new[k] ELSE prior[2][k]]
                                ELSE new
                  IN  Obj(Put(body[2], "resume", Obj(merged)))
             ELSE body
  /\ UNCHANGED <<ui, apiKey, OPENAI_MODEL, files, op, prompt, calls, tier1, now, issued, parked>>

\* the handler once openai.chat.completions.create has settled, in the catch
\* clause or in the else branch
RefineChatSettled(o) ==
  /\ pc = "chat"
  /\ op = "refine"
  /\ Settles(o)
  /\ tier2' = o
  /\ parsed' = TryChat(o)
  /\ res' = Answer(TryChat(o))
  /\ pc' = "done"
  /\ UNCHANGED <<ui, apiKey, OPENAI_MODEL, files, op, body, prompt, calls, tier1, now, issued, parked>>

\* the response is sent and the server takes the next request
NextRequest ==
  /\ pc = "done"
  /\ pc' = "idle"
  /\ op' = "none"
  /\ body' = Undefined
  /\ prompt' = <<Undefined, Undefined>>
  /\ calls' = <<>>
  /\ tier1' = None
  /\ tier2' = None
  /\ parsed' = None
  /\ res' = NoResponse
  /\ now' = 0
  /\ issued' = 0
  /\ UNCHANGED <<ui, apiKey, OPENAI_MODEL, files, parked>>

\* time passes while a provider call is awaited, until the SDK's timer runs out
Tick ==
  /\ pc \in {"responses", "chat"}
  /\ ~TimedOut
  /\ now' = now + TickMs
  /\ UNCHANGED <<ui, apiKey, OPENAI_MODEL, files, op, body, pc, prompt, calls, tier1, tier2,
                 parsed, res, issued, parked>>

Next ==
  \/ \E b \in GenerateBodies : Generate(b)
  \/ \E o \in Tier1Outcomes : GenerateResponsesSettled(o)
  \/ \E o \in Tier2Outcomes : GenerateChatSettled(o)
  \/ \E b \in RefineBodies : Refine(b)
  \/ \E o \in Tier1Outcomes : RefineResponsesSettled(o)
  \/ \E o \in Tier2Outcomes : RefineChatSettled(o)
  \/ NextRequest
  \/ Tick

Spec == Init /\ [][Next]_vars

(***************************************************************************)
(* A provider that never answers: every provider call ends with the SDK's  *)
(* timeout error.  The clock advances and the SDK's timers fire, which is  *)
(* what the weak fairness conditions say.                                  *)
(***************************************************************************)
NextSilentProvider ==
  \/ \E b \in GenerateBodies : Generate(b)
  \/ GenerateResponsesSettled(TimeoutRejection)
  \/ GenerateChatSettled(TimeoutRejection)
  \/ \E b \in RefineBodies : Refine(b)
  \/ RefineResponsesSettled(TimeoutRejection)
  \/ RefineChatSettled(TimeoutRejection)
  \/ NextRequest
  \/ Tick

SpecSilentProvider ==
  /\ Init
  /\ [][NextSilentProvider]_vars
  /\ WF_vars(Tick)
  /\ WF_vars(GenerateResponsesSettled(TimeoutRejection))
  /\ WF_vars(GenerateChatSettled(TimeoutRejection))
  /\ WF_vars(RefineResponsesSettled(TimeoutRejection))
  /\ WF_vars(RefineChatSettled(TimeoutRejection))

(***************************************************************************)
(* Two requests in progress at once.  A handler runs from one await to the *)
(* next without interruption; at an await the other request's handler may  *)
(* run.  Switch hands the processor to the other request.                  *)
(***************************************************************************)
\* the request whose handler is running
request ==
  [ op |-> op, body |-> body, pc |-> pc, prompt |-> prompt, calls |-> calls,
    tier1 |-> tier1, tier2 |-> tier2, parsed |-> parsed, res |-> res,
    now |-> now, issued |-> issued ]

Switch ==
  /\ parked' = request
  /\ op' = parked.op
  /\ body' = parked.body
  /\ pc' = parked.pc
  /\ prompt' = parked.prompt
  /\ calls' = parked.calls
  /\ tier1' = parked.tier1
  /\ tier2' = parked.tier2
  /\ parsed' = parked.parsed
  /\ res' = parked.res
  /\ now' = parked.now
  /\ issued' = parked.issued
  /\ UNCHANGED <<ui, apiKey, OPENAI_MODEL, files>>

ConcurrentGenerateBodies ==
  { Obj([targetText |-> Str(" Engineer at Acme "), aboutMe |-> Undefined]),
    Obj([targetText |-> Str(" Engineer at Acme "), aboutMe |-> Str("I am Bo.")]),
    Obj([targetText |-> Undefined, aboutMe |-> Str("I am Bo.")]) }

ConcurrentRefineBodies ==
  { Obj([resume |-> r, feedback |-> Str("too long, condense")]) :
      r \in { Undefined,
              ParseTable["{\"name\":\"Ann\",\"title\":\"Engineer\",\"contact\":{},\"summary\":\"Builds things.\",\"skills\":{\"core\":[]},\"experience\":[]}"] } }

ConcurrentTexts ==
  { "Sorry, I cannot help with that.",
    "{\"name\":\"Ann\",\"title\":",
    "{\"name\":\"Ann\",\"title\":\"Engineer\",\"contact\":{},\"summary\":\"Builds things.\",\"skills\":{\"core\":[]},\"experience\":[]}" }

ConcurrentTier1Outcomes ==
  {<<"reject", "400 Unsupported parameter">>,
   <<"resolve", Obj([output |-> Arr(<<>>)])>>}
    \cup {<<"resolve", Obj([output_text |-> Str(t)])>> : t \in ConcurrentTexts}

ConcurrentTier2Outcomes ==
  {<<"reject", "400 Unsupported parameter">>,
   <<"resolve", Obj([choices |-> Arr(<<>>)])>>}
    \cup {<<"resolve", Obj([choices |-> Arr(<<Obj([message |-> Obj([content |-> Str(t)])])>>)])>> :
            t \in ConcurrentTexts}

NextConcurrent ==
  \/ \E b \in ConcurrentGenerateBodies : Generate(b)
  \/ \E o \in ConcurrentTier1Outcomes : GenerateResponsesSettled(o)
  \/ \E o \in ConcurrentTier2Outcomes : GenerateChatSettled(o)
  \/ \E b \in ConcurrentRefineBodies : Refine(b)
  \/ \E o \in ConcurrentTier1Outcomes : RefineResponsesSettled(o)
  \/ \E o \in ConcurrentTier2Outcomes : RefineChatSettled(o)
  \/ NextRequest
  \/ Switch

SpecConcurrent == Init /\ [][NextConcurrent]_vars

(***************************************************************************)
(* What the claims speak of.                                               *)
(***************************************************************************)
Done == pc = "done"

Succeeded == res.status = 200

Failed == res.status >= 400

\* the document of a successful response
Resume == Get(res.body, "resume")

\* v is a string that is empty or holds only white space
BlankString(v) == v[1] = "str" /\ \A i \in 1..Len(v[2]) : SubSeq(v[2], i, i) \in WhiteSpace

\* v is a string with a character that is not white space
NonBlankString(v) == v[1] = "str" /\ \E i \in 1..Len(v[2]) : SubSeq(v[2], i, i) \notin WhiteSpace

\* no candidate file holds text that is not blank
StoreBlank == \A i \in 1..Len(files) : files[i] = Undefined \/ BlankString(files[i])

\* the response is the missing-input failure
MissingInput ==
  /\ res.status = 400
  /\ Get(res.body, "error") \in {Str("Missing targetText"), Str("Missing aboutMe content")}

\* the text the schema-constrained call returned, Undefined when it returned none
Tier1Payload ==
  IF tier1[1] # "resolve"
  THEN Undefined
  ELSE LET direct == Get(tier1[2], "output_text")
           output == Get(tier1[2], "output")
           nested == IF output[1] = "arr" /\ Len(output[2].elems) > 0
                     THEN LET content == Get(output[2].elems[1], "content")
                          IN  IF content[1] = "arr" /\ Len(content[2].elems) > 0
                              THEN Get(content[2].elems[1], "text")
                              ELSE Undefined
                     ELSE Undefined
       IN  IF direct[1] = "str" THEN direct ELSE nested

\* the text the JSON-mode call returned, Undefined when it returned none
Tier2Payload ==
  IF tier2[1] # "resolve"
  THEN Undefined
  ELSE LET choices == Get(tier2[2], "choices")
       IN  IF choices[1] = "arr" /\ Len(choices[2].elems) > 0
           THEN LET c == Get(Get(choices[2].elems[1], "message"), "content")
                IN  IF c[1] = "str" THEN c ELSE Undefined
           ELSE Undefined

\* the call returned a text and the text is not JSON
Unparseable(payload) == payload[1] = "str" /\ payload[2] \notin DOMAIN ParseTable

\* the call returned a text and the text is JSON
Parseable(payload) == payload[1] = "str" /\ payload[2] \in DOMAIN ParseTable

\* the schema-constrained call failed: the provider rejected it, or its text is not JSON
Tier1Failed == tier1[1] = "reject" \/ Unparseable(Tier1Payload)

(***************************************************************************)
(* C1.  Tier fallback: when the schema-constrained call has failed (the    *)
(* provider rejected it, or its text is not JSON) the JSON-mode call is    *)
(* the second and last provider call; and when that call returns JSON, the *)
(* two-tier call returns the value parsed from that text, after exactly    *)
(* two provider calls, and a parsed object is answered with status 200 and *)
(* that document.                                                          *)
(***************************************************************************)
C1_TierFallback ==
  Tier1Failed =>
    /\ Len(calls) = 2
    /\ calls[2].api = "chat.completions.create"
    /\ (Done /\ Parseable(Tier2Payload)) =>
         LET v == ParseTable[Tier2Payload[2]]
         IN  /\ parsed = <<"ok", v>>
             /\ v[1] = "obj" =>
                  /\ Succeeded
                  /\ DOMAIN Resume[2] \subseteq (DOMAIN v[2]) \cup {"experience", "skills"}
                  /\ \A k \in DOMAIN v[2] :
                       (Truthy(v[2][k]) \/ k \notin {"experience", "skills"}) =>
                         Get(Resume, k) = v[2][k]

C1_Witness ==
  /\ Done
  /\ tier1[1] = "reject"
  /\ Parseable(Tier2Payload)
  /\ Succeeded
  /\ Len(calls) = 2
  /\ Get(Resume, "name") = Str("Ann")

(***************************************************************************)
(* C2.  Total failure: when both calls return text that is not JSON, the   *)
(* operation fails and the failure carries the raw text of the JSON-mode   *)
(* call.                                                                   *)
(***************************************************************************)
C2_TotalFailureCarriesRaw ==
  (Done /\ Unparseable(Tier1Payload) /\ Unparseable(Tier2Payload)) =>
    /\ Failed
    /\ Get(res.body, "raw") = Tier2Payload

(***************************************************************************)
(* C3.  Empty input rejection, as claimed: a generate request whose        *)
(* aboutMe or targetText is empty or white space fails with the            *)
(* missing-input error and the provider is never invoked.                  *)
(***************************************************************************)
C3_EmptyInputRejected_Original ==
  (op = "generate"
     /\ (BlankString(Get(body, "aboutMe")) \/ BlankString(Get(body, "targetText")))) =>
    /\ calls = <<>>
    /\ Done
    /\ MissingInput

(***************************************************************************)
(* C3, amended.  A generate request whose targetText is empty or white     *)
(* space, or whose aboutMe is empty or white space while no about-me file  *)
(* holds text that is not blank, fails with the missing-input error and    *)
(* the provider is never invoked.                                          *)
(***************************************************************************)
C3_EmptyInputRejected ==
  (op = "generate"
     /\ \/ BlankString(Get(body, "targetText"))
        \/ (BlankString(Get(body, "aboutMe")) /\ StoreBlank)) =>
    /\ calls = <<>>
    /\ Done
    /\ MissingInput

C3_Witness ==
  /\ op = "generate"
  /\ Done
  /\ Get(body, "aboutMe") = Str("")
  /\ NonBlankString(Get(body, "targetText"))
  /\ StoreBlank
  /\ MissingInput
  /\ calls = <<>>

\* the JSON-mode call failed: the provider rejected it, or it returned a
\* text that is not empty and is not JSON
Tier2Failed ==
  tier2[1] = "reject" \/ (Unparseable(Tier2Payload) /\ Tier2Payload # Str(""))

(***************************************************************************)
(* C4.  An operation issues at most two provider calls, and once the       *)
(* JSON-mode call (the second call of the two-tier strategy) has settled   *)
(* the operation is over: no further call is issued, and when that call    *)
(* failed the operation has failed.                                        *)
(***************************************************************************)
C4_AtMostTwoCalls ==
  /\ Len(calls) <= 2
  /\ tier2 # None => Done
  /\ Tier2Failed => Failed

C4_Witness ==
  /\ Len(calls) = 2
  /\ tier2[1] = "reject"
  /\ Done
  /\ res.status = 500

\* v is a list
IsList(v) == v[1] = "arr"

\* v is there: neither undefined nor null
Present(v) == ~Nullish(v)

(***************************************************************************)
(* C5.  In every successful response the document has `experience` and     *)
(* `skills.core` present, neither null nor undefined.                      *)
(***************************************************************************)
C5_ListsPresent ==
  (Done /\ Succeeded) =>
    /\ Present(OptGet(Resume, "experience"))
    /\ Present(OptGet(OptGet(Resume, "skills"), "core"))

(***************************************************************************)
(* C6.  In every successful response for a parsed object, `experience` is  *)
(* the parsed list or, when the parsed value was absent or not a list, the *)
(* empty list; likewise `skills.core`; and an absent `skills` has become   *)
(* { core: [] }.                                                           *)
(***************************************************************************)
C6_NonListsReplaced ==
  (Done /\ Succeeded /\ parsed[2][1] = "obj") =>
    LET raw == parsed[2]
        e == Get(raw, "experience")
        c == OptGet(Get(raw, "skills"), "core")
    IN  /\ Get(Resume, "experience") = IF IsList(e) THEN e ELSE Arr(<<>>)
        /\ OptGet(Get(Resume, "skills"), "core") = IF IsList(c) THEN c ELSE Arr(<<>>)
        /\ Get(raw, "skills") = Undefined =>
             Get(Resume, "skills") = Obj([core |-> Arr(<<>>)])

(***************************************************************************)
(* C7.  Normalization has no failure mode: whatever value the provider's   *)
(* text parses to, the defaults are applied and a document is answered.    *)
(***************************************************************************)
C7_NormalizationTotal ==
  (Done /\ parsed[1] = "ok") => (Succeeded /\ Present(Resume))

(***************************************************************************)
(* C8.  Normalization is idempotent: applying the defaults to a value they *)
(* were applied to changes nothing, and applying them to the document of a *)
(* successful response for a parsed object yields that document.           *)
(***************************************************************************)
C8_NormalizationIdempotent ==
  (Done /\ parsed[1] = "ok") =>
    LET once == SanityDefaults(parsed[2])
    IN  /\ once[1] = "ok" => SanityDefaults(once[2]) = once
        /\ (Succeeded /\ parsed[2][1] = "obj") =>
             SanityDefaults(Resume) = <<"ok", Resume>>

C8_Witness ==
  /\ Done
  /\ Succeeded
  /\ parsed = <<"ok", Obj(<<>>)>>
  /\ Resume = Obj([experience |-> Arr(<<>>), skills |-> Obj([core |-> Arr(<<>>)])])

\* the document is complete: name and title are strings that are not empty,
\* and contact, summary, skills.core and experience are there
Complete(d) ==
  /\ \A k \in {"name", "title"} :
       OptGet(d, k)[1] = "str" /\ OptGet(d, k) # Str("")
  /\ \A k \in {"contact", "summary", "experience"} : Present(OptGet(d, k))
  /\ Present(OptGet(OptGet(d, "skills"), "core"))

(***************************************************************************)
(* C9.  No partial document is ever returned: an operation ends in a       *)
(* failure or in a success whose document is complete.                     *)
(***************************************************************************)
C9_NoPartialDocument ==
  Done => (Failed \/ (Succeeded /\ Complete(Resume)))

\* every provider call that has settled returned JSON matching the resume schema
AllCallsMatchSchema ==
  /\ tier1 # None => (Tier1Payload[1] = "str" /\ MatchesSchema(Tier1Payload[2]))
  /\ tier2 # None => (Tier2Payload[1] = "str" /\ MatchesSchema(Tier2Payload[2]))

\* the response carries a document with every required field, `experience`
\* and `skills.core` being lists
RequiredFieldsPresent ==
  /\ Succeeded
  /\ \A k \in buildJsonSchema.required : Present(OptGet(Resume, k))
  /\ IsList(OptGet(Resume, "experience"))
  /\ IsList(OptGet(OptGet(Resume, "skills"), "core"))

(***************************************************************************)
(* C10, as claimed.  For inputs that are not blank, if every provider call *)
(* returns JSON matching the resume schema, generate succeeds with a       *)
(* document that has every required field.                                 *)
(***************************************************************************)
C10_SchemaOutputSucceeds_Original ==
  (op = "generate" /\ Done
     /\ NonBlankString(Get(body, "aboutMe"))
     /\ NonBlankString(Get(body, "targetText"))
     /\ AllCallsMatchSchema) =>
    RequiredFieldsPresent

(***************************************************************************)
(* C10, amended.  For inputs that are not blank and a configured API key,  *)
(* once every provider call has returned JSON matching the resume schema,  *)
(* generate has succeeded with the document the provider returned, which   *)
(* has every required field.                                               *)
(***************************************************************************)
C10_SchemaOutputSucceeds ==
  (op = "generate"
     /\ NonBlankString(Get(body, "aboutMe"))
     /\ NonBlankString(Get(body, "targetText"))
     /\ Truthy(apiKey)
     /\ (tier1 # None \/ tier2 # None)
     /\ AllCallsMatchSchema) =>
    /\ Done
    /\ RequiredFieldsPresent
    /\ Validates(buildJsonSchema, Resume)
    /\ Len(calls) = 1

C10_Witness ==
  /\ op = "generate"
  /\ Done
  /\ NonBlankString(Get(body, "aboutMe"))
  /\ tier1 # None
  /\ AllCallsMatchSchema
  /\ RequiredFieldsPresent
  /\ Len(Get(Resume, "experience")[2].elems) = 1

\* the response is the failure of a provider call that timed out
TimeoutFailure ==
  /\ res.status = 500
  /\ res.body = Obj([error |-> Str(TimeoutRejection[2])])

(***************************************************************************)
(* C11.  Timeout: with a provider that never answers, a generate request   *)
(* that has called the provider is in the end answered with the timeout    *)
(* failure (status 500, the SDK's "Request timed out."); whenever such a   *)
(* request is answered, the answer is that failure, it carries no          *)
(* document, and at least `timeout` milliseconds have passed since the     *)
(* request was received.                                                   *)
(***************************************************************************)
C11_SilentProviderTimesOut ==
  /\ []((op = "generate" /\ Done /\ calls # <<>>) =>
          /\ TimeoutFailure
          /\ Get(res.body, "resume") = Undefined
          /\ now >= timeout)
  /\ (op = "generate" /\ pc \in {"responses", "chat"}) ~>
       (op = "generate" /\ Done /\ TimeoutFailure)

C11_Witness ==
  /\ op = "generate"
  /\ Done
  /\ TimeoutFailure
  /\ tier1 = TimeoutRejection
  /\ tier2 = TimeoutRejection
  /\ now >= 2 * timeout

(***************************************************************************)
(* C12.  Cancellation: once the schema-constrained call of a request has   *)
(* ended with the timeout error, the request has failed and no further     *)
(* provider call has been issued for it.                                   *)
(***************************************************************************)
C12_TimeoutEndsRequest ==
  tier1 = TimeoutRejection =>
    /\ Done
    /\ Failed
    /\ Len(calls) = 1

\* v passes the basic shape checks of a resume: an object, not an array,
\* that has the fields the schema requires
WellFormedResume(v) ==
  /\ v[1] = "obj"
  /\ buildJsonSchema.required \subseteq DOMAIN v[2]

(***************************************************************************)
(* C13.  A refine request whose resume is missing, is not an object, is an *)
(* array or lacks the required fields, or whose feedback is missing, empty *)
(* or only white space, has failed as soon as its handler has run, with no *)
(* provider call.                                                          *)
(***************************************************************************)
C13_RefineValidatesInput ==
  (op = "refine" /\ pc # "idle") =>
    ((~WellFormedResume(Get(body, "resume")) \/ ~NonBlankString(Get(body, "feedback"))) =>
       /\ Done
       /\ Failed
       /\ calls = <<>>)

(***************************************************************************)
(* C14.  Refine never mutates the prior resume: while a refine request is  *)
(* in progress, whatever its handler does, the request body and the resume *)
(* in it stay as received; and the document of a successful answer is made *)
(* of the value parsed from the provider's text and of the defaults, field *)
(* by field, not of the prior resume.                                      *)
(***************************************************************************)
C14_PriorResumeUnchanged ==
  /\ [][(op = "refine" /\ op' = "refine") => body' = body]_vars
  /\ []((op = "refine" /\ calls # <<>>) => prompt[1] = Get(body, "resume"))
  /\ []((op = "refine" /\ Done /\ Succeeded) =>
          /\ parsed[1] = "ok"
          /\ Resume[1] = parsed[2][1]
          /\ Resume[1] = "obj" =>
                \A k \in DOMAIN Resume[2] :
                  Resume[2][k] \in { ToWire(Get(parsed[2], k)),
                                     Arr(<<>>),
                                     Obj([core |-> Arr(<<>>)]) })

C14_Witness ==
  /\ op = "refine"
  /\ Done
  /\ Succeeded
  /\ Get(body, "resume")[1] = "obj"
  /\ DOMAIN Get(body, "resume")[2] # {}
  /\ Resume # Get(body, "resume")

\* the text of the first candidate file that is not blank
StoreText ==
  files[CHOOSE i \in 1..Len(files) :
          /\ NonBlankString(files[i])
          /\ \A j \in 1..(i - 1) : ~NonBlankString(files[j])]

(***************************************************************************)
(* C17.  A generate request with a target text and no about-me text of its *)
(* own (none, a blank one, or a value that is no string): when a candidate *)
(* file holds text that is not blank, the text of the first such file is   *)
(* the aboutMe of the prompt, and with an API key the provider is called;  *)
(* when no file does, the request has failed with 400 'Missing aboutMe     *)
(* content' and no provider call.                                          *)
(***************************************************************************)
C17_AboutMeFromStore ==
  (/\ op = "generate"
   /\ pc # "idle"
   /\ NonBlankString(Get(body, "targetText"))
   /\ ~NonBlankString(Get(body, "aboutMe"))) =>
    IF StoreBlank
    THEN /\ Done
         /\ res = ErrorResponse(400, "Missing aboutMe content")
         /\ calls = <<>>
    ELSE /\ Truthy(apiKey) <=> calls # <<>>
         /\ calls # <<>> =>
              /\ prompt = <<StoreText, Get(body, "targetText")>>
              /\ \A i \in 1..Len(calls) :
                   calls[i].user =
                     buildUserPrompt(StoreText[2], Get(body, "targetText")[2])

C17_Witness ==
  /\ op = "generate"
  /\ Get(body, "aboutMe") = Undefined
  /\ BlankString(files[1])
  /\ Len(calls) = 2
  /\ prompt[1] = files[2]

(***************************************************************************)
(* C18.  Normalization leaves a document alone: when the value parsed from *)
(* the provider's text is an object whose `experience` is a list and whose *)
(* `skills` is an object, the request succeeds and the document answered   *)
(* is that value, field for field: `education`, every other field, and     *)
(* each `experience[].bullets` list with all its items.                    *)
(***************************************************************************)
C18_NormalizationKeepsDocument ==
  (/\ Done
   /\ parsed[1] = "ok"
   /\ parsed[2][1] = "obj"
   /\ IsList(Get(parsed[2], "experience"))
   /\ Get(parsed[2], "skills")[1] = "obj") =>
    /\ Succeeded
    /\ Resume = parsed[2]
    /\ Get(Resume, "education") = Get(parsed[2], "education")
    /\ \A i \in 1..Len(Get(parsed[2], "experience")[2].elems) :
         Get(Get(Resume, "experience")[2].elems[i], "bullets") =
           Get(Get(parsed[2], "experience")[2].elems[i], "bullets")

C18_Witness ==
  /\ Done
  /\ Succeeded
  /\ parsed[1] = "ok"
  /\ Get(parsed[2], "education") = Arr(<<Obj([school |-> Str("UCB")])>>)
  /\ Len(Get(parsed[2], "experience")[2].elems) = 1
  /\ Len(Get(Get(Resume, "experience")[2].elems[1], "bullets")[2].elems) = 2

\* the fields a JSON schema declares: <<path, kind, required>> for each, where an
\* item of a list stands under "[]" in the path
RECURSIVE SchemaFields(_, _)
SchemaFields(s, path) ==
  CASE s.type = "object" ->
         UNION { LET f == s.properties[k]
                     kind == IF f.type = "array" THEN f.items.type \o "[]" ELSE f.type
                     required == "required" \in DOMAIN s /\ k \in s.required
                 IN  {<<Append(path, k), kind, required>>}
                       \cup SchemaFields(f, Append(path, k)) :
                 k \in DOMAIN s.properties }
    [] s.type = "array" -> SchemaFields(s.items, Append(path, "[]"))
    [] OTHER -> {}

\* the fields the prompt template declares, likewise: 'string?' marks a text or
\* a list of texts that may be left out, anything without the mark is required
RECURSIVE TemplateFields(_, _)
TemplateFields(t, path) ==
  CASE t[1] = "obj" ->
         UNION { LET f == t[2][k]
                     item == IF f[1] = "arr" THEN f[2].elems[1] ELSE f
                     base == IF item[1] = "obj" THEN "object" ELSE "string"
                     kind == IF f[1] = "arr" THEN base \o "[]" ELSE base
                     required == item # Str("string?")
                 IN  {<<Append(path, k), kind, required>>}
                       \cup TemplateFields(f, Append(path, k)) :
                 k \in DOMAIN t[2] }
    [] t[1] = "arr" -> TemplateFields(t[2].elems[1], Append(path, "[]"))
    [] OTHER -> {}

(***************************************************************************)
(* C19.  The schema is a single source of truth: in every schema-          *)
(* constrained call of a generate request, whose user text embeds the      *)
(* template, the schema sent declares the same fields as the template,     *)
(* with the same nesting, kinds and required or optional status.           *)
(***************************************************************************)
C19_SchemaSingleSource ==
  \A i \in 1..Len(calls) :
    (op = "generate" /\ calls[i].api = "responses.create") =>
      SchemaFields(calls[i].schema, <<>>) = TemplateFields(schema, <<>>)

SameInputs ==
  /\ op = parked.op
  /\ body = parked.body
  /\ pc = parked.pc
  /\ tier1 = parked.tier1
  /\ tier2 = parked.tier2

(***************************************************************************)
(* C15.  Concurrent requests are independent: no step of a handler writes  *)
(* the state the requests share (the API key, the model name, the about-me *)
(* files); a step of one request leaves the other request as it was; and   *)
(* two requests with the same inputs whose provider calls have settled     *)
(* alike have issued the same provider calls and have the same outcome,    *)
(* however their steps were interleaved.                                   *)
(***************************************************************************)
C15_RequestsIndependent ==
  /\ [][UNCHANGED <<apiKey, OPENAI_MODEL, files>>]_vars
  /\ [][parked' = parked \/ (parked' = request /\ request' = parked)]_vars
  /\ [](SameInputs =>
          /\ calls = parked.calls
          /\ prompt = parked.prompt
          /\ parsed = parked.parsed
          /\ res = parked.res)

C15_Witness ==
  /\ SameInputs
  /\ op = "generate"
  /\ pc = "chat"
  /\ tier1[1] = "reject"
  /\ Len(calls) = 2

\* the kind of failure a finished request r ended with, by its cause; "none"
\* when it did not fail or failed for a cause the five kinds do not cover
Kind(r) ==
  IF r.pc # "done" \/ r.res.status < 400
  THEN "none"
  ELSE IF r.calls = <<>>
  THEN IF r.op = "generate"
       THEN IF \/ ~NonBlankString(Get(r.body, "targetText"))
               \/ (~NonBlankString(Get(r.body, "aboutMe")) /\ StoreBlank)
            THEN "MissingInput"
            ELSE "none"
       ELSE IF ~WellFormedResume(Get(r.body, "resume"))
            THEN "MalformedRefinementInput"
            ELSE IF ~NonBlankString(Get(r.body, "feedback"))
            THEN "MissingInput"
            ELSE "none"
  ELSE LET last == IF r.tier2 # None THEN r.tier2 ELSE r.tier1
       IN  IF last = TimeoutRejection
           THEN "GenerationTimeout"
           ELSE IF last[1] = "reject"
           THEN "ProviderUnavailable"
           ELSE IF r.parsed[1] = "throw"
           THEN "InvalidModelOutput"
           ELSE "none"

(***************************************************************************)
(* C16.  Error kinds are distinguishable and stable: of two failed         *)
(* requests, each of one of the five kinds, the two answers have the same  *)
(* status and message exactly when the two failures are of the same kind.  *)
(***************************************************************************)
C16_ErrorKindsStable ==
  (Kind(request) # "none" /\ Kind(parked) # "none") =>
    ((Kind(request) = Kind(parked)) <=> (res = parked.res))

\* the configured model name starts with gpt-5, in any case of the letters
Gpt5Model == OPENAI_MODEL \in {"gpt-5", "GPT-5-mini"}

(***************************************************************************)
(* C22.  Tier ordering, as first stated: in every request that has reached *)
(* the provider the first provider call is the schema-constrained call.    *)
(***************************************************************************)
C22_TierOrdering_Original ==
  calls # <<>> => calls[1].api = "responses.create"

(***************************************************************************)
(* C22.  Tier ordering: when the model name starts with gpt-5, in every    *)
(* generate and refine request that has reached the provider the first     *)
(* provider call is the schema-constrained call, no later call is, and the *)
(* JSON-mode call is there only once the schema-constrained call of the    *)
(* same request has failed.                                                *)
(***************************************************************************)
C22_TierOrdering ==
  (Gpt5Model /\ calls # <<>>) =>
    /\ calls[1].api = "responses.create"
    /\ calls[1].format = "json_schema"
    /\ \A i \in 2..Len(calls) :
         /\ calls[i].api = "chat.completions.create"
         /\ calls[i].format = "json_object"
         /\ Tier1Failed

C22_Witness ==
  /\ OPENAI_MODEL = "GPT-5-mini"
  /\ op = "refine"
  /\ Len(calls) = 2
  /\ Unparseable(Tier1Payload)

(***************************************************************************)
(* C23.  When the model name does not start with gpt-5, a generate or      *)
(* refine request that has reached the provider has issued exactly one     *)
(* provider call, the JSON-mode call; and when that call has failed (a     *)
(* rejection, or a text that is not JSON) the request has failed with      *)
(* status 500 and still that one call.                                     *)
(***************************************************************************)
C23_ChatOnlyModels ==
  (~Gpt5Model /\ calls # <<>>) =>
    /\ Len(calls) = 1
    /\ calls[1].api = "chat.completions.create"
    /\ calls[1].format = "json_object"
    /\ tier1 = None
    /\ pc \in {"chat", "done"}
    /\ Tier2Failed => (Done /\ res.status = 500)

C23_Witness ==
  /\ OPENAI_MODEL = "gpt-4o-mini"
  /\ op = "generate"
  /\ Done
  /\ tier2[1] = "reject"
  /\ res.status = 500
  /\ Len(calls) = 1

\* the kinds of the provider calls of a request, in order
CallKinds(cs) == [i \in 1..Len(cs) |-> <<cs[i].api, cs[i].format, cs[i].model>>]

(***************************************************************************)
(* C24.  generate and refine implement the same two-tier strategy: of two  *)
(* requests under the same configuration, one a generate and one a refine  *)
(* request, that have both reached the provider and whose provider calls   *)
(* have settled alike so far, tier by tier (a text that is JSON, a text    *)
(* that is not, no text, a rejection), the two stand at the same point,    *)
(* have issued the same kinds of provider calls in the same order and have *)
(* the same parsed value and the same answer.                              *)
(***************************************************************************)
C24_SameStrategy ==
  (/\ op = "generate"
   /\ parked.op = "refine"
   /\ calls # <<>>
   /\ parked.calls # <<>>
   /\ tier1 = parked.tier1
   /\ tier2 = parked.tier2) =>
    /\ pc = parked.pc
    /\ CallKinds(calls) = CallKinds(parked.calls)
    /\ parsed = parked.parsed
    /\ res = parked.res

C24_Witness ==
  /\ op = "generate"
  /\ parked.op = "refine"
  /\ Done
  /\ parked.pc = "done"
  /\ tier1 = parked.tier1
  /\ tier2 = parked.tier2
  /\ Unparseable(Tier1Payload)
  /\ Parseable(Tier2Payload)
  /\ Succeeded
  /\ parked.res.status = 200

\* the document the defaults make of '{}'
DefaultDocument == Obj([experience |-> Arr(<<>>), skills |-> Obj([core |-> Arr(<<>>)])])

(***************************************************************************)
(* C25.  A provider response that carries no text is taken as the text     *)
(* '{}': when the schema-constrained call has returned a response with no  *)
(* text, no JSON-mode call is issued and the request has succeeded with    *)
(* the document { experience: [], skills: { core: [] } }; and likewise     *)
(* when the JSON-mode call has returned a response with no text.           *)
(***************************************************************************)
C25_NoTextIsEmptyObject ==
  /\ (tier1[1] = "resolve" /\ Tier1Payload = Undefined) =>
       /\ Len(calls) = 1
       /\ tier2 = None
       /\ Done
       /\ Succeeded
       /\ Resume = DefaultDocument
  /\ (tier2[1] = "resolve" /\ Tier2Payload = Undefined) =>
       /\ Done
       /\ Succeeded
       /\ Resume = DefaultDocument

C25_Witness ==
  /\ tier1[1] = "resolve"
  /\ Tier1Payload = Undefined
  /\ Len(calls) = 1
  /\ Succeeded
  /\ Resume = DefaultDocument

\* the handler of the request in progress rejects its input
InputRejected ==
  IF op = "generate"
  THEN \/ ~NonBlankString(Get(body, "targetText"))
       \/ (~NonBlankString(Get(body, "aboutMe")) /\ StoreBlank)
  ELSE \/ Get(body, "resume")[1] \notin {"obj", "arr"}
       \/ Get(body, "feedback")[1] # "str"
       \/ Get(body, "feedback") = Str("")

(***************************************************************************)
(* C26.  The checks run in a fixed order before any provider call, the     *)
(* input first and the API key after it: a request whose input the handler *)
(* rejects is answered with status 400 and no provider call, with or       *)
(* without an API key; a request whose input it accepts, with no API key   *)
(* configured, is answered with status 500 and no provider call.           *)
(***************************************************************************)
C26_ChecksInOrder ==
  (op \in {"generate", "refine"} /\ pc # "idle") =>
    /\ InputRejected =>
         /\ Done
         /\ res.status = 400
         /\ calls = <<>>
    /\ (~InputRejected /\ ~Truthy(apiKey)) =>
         /\ Done
         /\ res = ErrorResponse(500, "OPENAI_API_KEY is not configured in server/.env")
         /\ calls = <<>>
    /\ (~InputRejected /\ Truthy(apiKey)) => calls # <<>>

C26_Witness ==
  /\ op = "generate"
  /\ ~Truthy(apiKey)
  /\ NonBlankString(Get(body, "aboutMe"))
  /\ Get(body, "targetText") = Str("  ")
  /\ res.status = 400

(***************************************************************************)
(* The renderer (src/unnamed/part_000).  The markup is written without the *)
(* white space between its tags, and the characters outside ASCII of the   *)
(* sources are written in ASCII: " - " for the dash between two dates,     *)
(* " * " for the bullet between two parts, "..." for the ellipsis.         *)
(***************************************************************************)
\* `${v}`: the string a template literal makes of a value
RECURSIVE ToStr(_)
ToStr(v) ==
  CASE v[1] = "str" -> v[2]
    [] v[1] = "num" -> ToString(v[2])
    [] v[1] = "undefined" -> "undefined"
    [] v[1] = "null" -> "null"
    [] v[1] = "arr" ->
         Join([i \in 1..Len(v[2].elems) |->
                 IF Nullish(v[2].elems[i]) THEN "" ELSE ToStr(v[2].elems[i])], ",")
    [] OTHER -> "[object Object]"

\* v.length
Length(v) ==
  CASE v[1] = "str" -> Num(Len(v[2]))
    [] v[1] = "arr" -> Num(Len(v[2].elems))
    [] OTHER -> Get(v, "length")

\* a.join(sep) of an array a
ArrayJoin(a, sep) ==
  Join([i \in 1..Len(a[2].elems) |->
          IF Nullish(a[2].elems[i]) THEN "" ELSE ToStr(a[2].elems[i])], sep)

\* xs.filter(Boolean).join(sep) of a list xs of values
FilterJoin(xs, sep) ==
  LET kept == SelectSeq(xs, Truthy)
  IN  Join([i \in 1..Len(kept) |-> ToStr(kept[i])], sep)

\* the pieces rs, each <<"ok", html>> or <<"throw", message>>, put together:
\* the first exception, or the pieces joined
Joined(rs) ==
  LET thrown == {i \in 1..Len(rs) : rs[i][1] = "throw"}
  IN  IF thrown # {}
      THEN rs[CHOOSE i \in thrown : \A j \in thrown : i <= j]
      ELSE <<"ok", Join([i \in 1..Len(rs) |-> rs[i][2]], "")>>

renderContact ==
  "<div class=\"contact\">"
    \o Join(<< "<span>liam@liamcampbell.net</span>",
               "<span>(805) 625-3851</span>",
               "<span>https://linkedin.com/in/liamacampbell</span>" >>,
            "<span class=\"sep\"> * </span>")
    \o "</div>"

\* renderList(items, className)
renderList(items, className) ==
  IF ~Truthy(items) \/ Length(items) = Num(0)
  THEN <<"ok", "">>
  ELSE IF items[1] # "arr"
  THEN <<"throw", "items.map is not a function">>
  ELSE <<"ok", "<ul class=\"" \o className \o "\">"
                 \o Join([i \in 1..Len(items[2].elems) |->
                            "<li>" \o ToStr(items[2].elems[i]) \o "</li>"], "")
                 \o "</ul>">>

\* one block of the skills section: the group k of data.skills under heading
skillsBlock(data, k, heading) ==
  LET group == OptGet(OptGet(data, "skills"), k)
  IN  IF Nullish(group) \/ ~Truthy(Length(group))
      THEN <<"ok", "">>
      ELSE IF group[1] # "arr"
      THEN <<"throw", "data.skills." \o k \o ".join is not a function">>
      ELSE <<"ok", "<div class=\"skill-group\"><h3>" \o heading \o "</h3><div>"
                     \o ArrayJoin(group, ", ") \o "</div></div>">>

\* the markup of one entry of data.experience
experienceItem(role) ==
  IF Nullish(role)
  THEN <<"throw", "Cannot read properties of " \o role[1]>>
  ELSE LET dates == Str(FilterJoin(<<Get(role, "startDate"), Get(role, "endDate")>>, " - "))
           headerRight == FilterJoin(<<dates, Get(role, "location")>>, " * ")
           bullets == renderList(Get(role, "bullets"), "bullets")
       IN  IF bullets[1] = "throw"
           THEN bullets
           ELSE <<"ok", "<div class=\"experience-item\"><div class=\"item-info\"><div class=\"title-row\"><h4>"
                          \o ToStr(Get(role, "role")) \o "</h4><div class=\"meta\">" \o headerRight
                          \o "</div></div><div class=\"company\">" \o ToStr(Get(role, "company"))
                          \o "</div></div>" \o bullets[2] \o "</div>">>

\* the markup of one entry of data.projects
projectItem(p) ==
  IF Nullish(p)
  THEN <<"throw", "Cannot read properties of " \o p[1]>>
  ELSE LET right == FilterJoin(<<Get(p, "link")>>, "")
           tech == Get(p, "technologies")
           bullets == renderList(Get(p, "bullets"), "bullets")
       IN  IF ~Nullish(tech) /\ tech[1] # "arr"
           THEN <<"throw", "p.technologies?.join is not a function">>
           ELSE IF bullets[1] = "throw"
           THEN bullets
           ELSE <<"ok", "<div class=\"project-item\"><div class=\"item-info\"><div class=\"title-row\"><h4>"
                          \o ToStr(Get(p, "name")) \o "</h4><div class=\"meta\">" \o right
                          \o "</div></div><div class=\"company\">"
                          \o (IF Nullish(tech) THEN "" ELSE ArrayJoin(tech, ", "))
                          \o "</div></div><div class=\"description\">" \o ToStr(Get(p, "description"))
                          \o "</div>" \o bullets[2] \o "</div>">>

\* (data[name] || []).map(...).join(''), name being experience or projects
mapJoin(data, name) ==
  LET l == OrElse(Get(data, name), Arr(<<>>))
  IN  IF l[1] # "arr"
      THEN <<"throw", "(data." \o name \o " || []).map is not a function">>
      ELSE Joined([i \in 1..Len(l[2].elems) |->
                     IF name = "experience"
                     THEN experienceItem(l[2].elems[i])
                     ELSE projectItem(l[2].elems[i])])

\* a section of the resume, left out when its content is empty
section(heading, content) ==
  IF content = ""
  THEN ""
  ELSE "<section class=\"section\"><h3>" \o heading \o "</h3>" \o content \o "</section>"

\* generateResumeHtml(data): <<"ok", html>>, or <<"throw", message>> for the
\* TypeError of a value that is not of the shape of ResumeData
generateResumeHtml(data) ==
  IF Nullish(data)
  THEN <<"throw", "Cannot read properties of " \o data[1]>>
  ELSE LET skillsBlocks == Joined(<< skillsBlock(data, "core", "Core"),
                                     skillsBlock(data, "tools", "Tools"),
                                     skillsBlock(data, "other", "Other") >>)
           experience == mapJoin(data, "experience")
           projects == mapJoin(data, "projects")
           education ==
             "<div class=\"education-item\"><div class=\"item-info\"><div class=\"title-row\">"
               \o "<h4>Business Administration (B.Sc)</h4><div class=\"meta\">Graduated May 2021</div></div>"
               \o "<div class=\"company\">University of California, Berkeley, Haas School of Business</div>"
               \o "</div></div>"
           certs == renderList(Get(data, "certifications"), "bullets")
           parts == <<skillsBlocks, experience, projects, certs>>
       IN  IF Joined(parts)[1] = "throw"
           THEN Joined(parts)
           ELSE <<"ok", "<article class=\"resume\"><header class=\"resume-header\"><h1>"
                          \o ToStr(Get(data, "name")) \o "</h1><h2>" \o ToStr(Get(data, "title")) \o "</h2>"
                          \o renderContact \o "</header>"
                          \o section("Professional Summary",
                                     "<p class=\"summary\">" \o ToStr(Get(data, "summary")) \o "</p>")
                          \o section("Skills", "<div class=\"skills\">" \o skillsBlocks[2] \o "</div>")
                          \o section("Experience", experience[2])
                          \o section("Projects", projects[2])
                          \o section("Education", education)
                          \o section("Certifications", certs[2])
                          \o "</article>">>

(***************************************************************************)
(* The browser client (src/unnamed/part_002): the tabs, the Generate       *)
(* button and its click handler with callGenerate and its abort timer, the *)
(* history list, the preview and the two export buttons.  The server and   *)
(* the Firestore collections are the client's environment: each await of   *)
(* the handler settles with one of the outcomes listed here, or not at all.*)
(***************************************************************************)
serverVars == <<apiKey, OPENAI_MODEL, files, op, body, pc, prompt, calls, tier1, tier2, parsed,
                res, now, issued, parked>>

\* setTimeout(() => controller.abort(), 180000)
abortAfter == 180000

\* what the user types into the target textarea
TargetInputs == {" ", "Engineer at Acme"}

\* how getAboutMeFromFirebase() can settle
GetAboutMeOutcomes ==
  {<<"resolve", "">>, <<"resolve", "  ">>, <<"resolve", "I am Bo.">>, <<"reject", "offline">>}

\* how fetch('/api/aboutme') followed by r.json() can settle
FetchAboutMeOutcomes ==
  { <<"resolve", Obj([content |-> Str("I am Ann, an engineer.")])>>,
    <<"resolve", Obj([content |-> Null])>>,
    <<"reject", "Failed to fetch">> }

\* the texts of the provider behind the answers of the server to the client
ClientTexts ==
  { "{}",
    "{\"name\":\"Ann\",\"title\":\"Engineer\",\"contact\":{\"email\":\"a@x.io\"},\"summary\":\"Builds things.\",\"skills\":{\"core\":[\"TS\"]},\"experience\":[{\"company\":\"Acme\",\"role\":\"Dev\",\"bullets\":[\"Shipped X\",\"Cut cost 20%\"]}],\"education\":[{\"school\":\"UCB\"}]}",
    "{\"experience\":\"n/a\",\"skills\":{}}" }

\* the responses of POST /api/generate
ServerAnswers ==
  {Answer(JSONParse(t)) : t \in ClientTexts}
    \cup {Answer(<<"throw", m>>) : m \in RejectMessages}
    \cup {ErrorResponse(500, "OPENAI_API_KEY is not configured in server/.env")}

\* how fetch('/api/generate') can settle before it is aborted: a rejection
\* (no connection), a response of the server, or a response whose body is
\* not JSON (body Undefined), as a proxy in front of the server sends
FetchOutcomes ==
  {<<"reject", "Failed to fetch">>}
    \cup {<<"response", r>> : r \in ServerAnswers}
    \cup {<<"response", [status |-> 502, body |-> Undefined]>>}

\* an entry of the resumeHistory collection
HistoryItem(targetText, resumeHtml) == [targetText |-> targetText, resumeHtml |-> resumeHtml]

\* the resumeHistory collection when the page is opened: empty, or holding
\* what an earlier session saved
StoredHistories ==
  { <<>>,
    <<HistoryItem("Engineer at Acme", generateResumeHtml(Answer(JSONParse("{}")).body[2].resume)[2])>> }

InitUI ==
  /\ apiKey = Str("sk-test")
  /\ OPENAI_MODEL = "gpt-5"
  /\ files = <<Undefined, Undefined>>
  /\ op = NoRequest.op
  /\ body = NoRequest.body
  /\ pc = NoRequest.pc
  /\ prompt = NoRequest.prompt
  /\ calls = NoRequest.calls
  /\ tier1 = NoRequest.tier1
  /\ tier2 = NoRequest.tier2
  /\ parsed = NoRequest.parsed
  /\ res = NoRequest.res
  /\ now = NoRequest.now
  /\ issued = NoRequest.issued
  /\ parked = NoRequest
  /\ ui \in {[renderApp EXCEPT !.resumeHistory = hs] : hs \in StoredHistories}

\* el.classList.toggle(name, force)
toggle(classList, name, force) ==
  IF force THEN classList \cup {name} ELSE classList \ {name}

\* switchTo with the fault of leaving the other tabs as they are
switchToAdding(u, key) ==
  [u EXCEPT !.tabs[key] = @ \cup {"active"},
            !.pages[key] = @ \ {"hidden"}]

\* switchTo(key) of the client with three tabs
switchTo(u, key) ==
  [u EXCEPT !.tabs = [t \in DOMAIN u.tabs |-> toggle(u.tabs[t], "active", key = t)],
            !.pages = [p \in DOMAIN u.pages |-> toggle(u.pages[p], "hidden", key # p)]]

\* switchTo(key) of the client with two tabs
switchToTwoTab(u, key) ==
  IF key = "about"
  THEN [u EXCEPT !.tabsTwoTab = [about    |-> u.tabsTwoTab.about \cup {"active"},
                                 generate |-> u.tabsTwoTab.generate \ {"active"}],
                 !.pagesTwoTab = [about    |-> u.pagesTwoTab.about \ {"hidden"},
                                  generate |-> u.pagesTwoTab.generate \cup {"hidden"}]]
  ELSE [u EXCEPT !.tabsTwoTab = [about    |-> u.tabsTwoTab.about \ {"active"},
                                 generate |-> u.tabsTwoTab.generate \cup {"active"}],
                 !.pagesTwoTab = [about    |-> u.pagesTwoTab.about \cup {"hidden"},
                                  generate |-> u.pagesTwoTab.generate \ {"hidden"}]]

\* the finally clause of the click handler h
Finally(u, h) ==
  [u EXCEPT !.generateBtn = [disabled |-> FALSE, textContent |-> "Generate Resume"],
            !.handlers[h] = IdleHandler]

\* Throw with the fault of clearing the preview when a generation fails
ThrowClearing(u, h, message) ==
  Finally([u EXCEPT !.alert = OrElse(Str(message), Str("Generation failed")),
                    !.lastResumeHtml = "",
                    !.previewInner = Placeholder], h)

\* an Error with this message thrown in the try block of the click handler
\* h: the catch clause, then the finally clause
Throw(u, h, message) ==
  Finally([u EXCEPT !.alert = OrElse(Str(message), Str("Generation failed"))], h)

\* the click handler h from the test of aboutMe to the call of callGenerate
CheckAboutMe(u, h, aboutMe) ==
  IF aboutMe = "" \/ Len(Trim(aboutMe)) = 0
  THEN Throw(u, h, "Please fill in your About Me information first.")
  ELSE [u EXCEPT !.handlers[h].pc = "callGenerate",
                 !.handlers[h].aboutMe = aboutMe,
                 !.handlers[h].elapsed = 0]

\* a click on the target textarea's content: the user types t
TypeTarget(t) ==
  /\ ui.textarea # t
  /\ ui' = [ui EXCEPT !.textarea = t]
  /\ UNCHANGED serverVars

\* a click on a tab of the client with three tabs
ClickTab(key) ==
  /\ ui' = switchTo(ui, key)
  /\ UNCHANGED serverVars

\* a click on a tab of the client with two tabs, or its handler's switchTo('generate')
ClickTabTwoTab(key) ==
  /\ ui' = switchToTwoTab(ui, key)
  /\ UNCHANGED serverVars

\* a click on the Generate button, which a disabled button does not take:
\* the handler h up to its first await
ClickGenerate(h) ==
  /\ ~ui.generateBtn.disabled
  /\ ui.handlers[h].pc = "idle"
  /\ \A g \in 1..(h - 1) : ui.handlers[g].pc # "idle"
  /\ LET targetText == Trim(ui.textarea)
         busy == [ui EXCEPT !.generateBtn = [disabled |-> TRUE, textContent |-> "Generating..."]]
     IN  ui' = IF targetText = ""
               THEN Throw(busy, h, "Please paste target company / job info.")
               ELSE [busy EXCEPT !.handlers[h] =
                       [pc |-> "getAboutMe", targetText |-> targetText, aboutMe |-> "",
                        elapsed |-> 0, html |-> ""]]
  /\ UNCHANGED serverVars

\* getAboutMeFromFirebase() settles with o
GetAboutMeSettled(h, o) ==
  /\ ui.handlers[h].pc = "getAboutMe"
  /\ LET aboutMe == IF o[1] = "resolve" THEN o[2] ELSE ""
     IN  ui' = IF aboutMe = ""
               THEN [ui EXCEPT !.handlers[h].pc = "fetchAboutMe"]
               ELSE CheckAboutMe(ui, h, aboutMe)
  /\ UNCHANGED serverVars

\* fetch('/api/aboutme') and r.json() settle with o
FetchAboutMeSettled(h, o) ==
  /\ ui.handlers[h].pc = "fetchAboutMe"
  /\ LET aboutMe == IF o[1] = "resolve" THEN OrElse(Get(o[2], "content"), Str(""))[2] ELSE ""
     IN  ui' = CheckAboutMe(ui, h, aboutMe)
  /\ UNCHANGED serverVars

\* time passes while callGenerate awaits fetch
Elapse ==
  /\ \E h \in 1..MaxHandlers :
        ui.handlers[h].pc = "callGenerate" /\ ui.handlers[h].elapsed < abortAfter
  /\ ui' = [ui EXCEPT !.handlers =
              [h \in 1..MaxHandlers |->
                 IF ui.handlers[h].pc = "callGenerate" /\ ui.handlers[h].elapsed < abortAfter
                 THEN [ui.handlers[h] EXCEPT !.elapsed = @ + TickMs]
                 ELSE ui.handlers[h]]]
  /\ UNCHANGED serverVars

\* AbortFetch with the fault of reporting the message of any other failure
AbortFetchPlain(h) ==
  /\ ui.handlers[h].pc = "callGenerate"
  /\ ui.handlers[h].elapsed >= abortAfter
  /\ ui' = Throw(ui, h, "Failed to generate")
  /\ UNCHANGED serverVars

\* the timer of callGenerate runs out: controller.abort(), fetch rejects with
\* an AbortError, which callGenerate replaces
AbortFetch(h) ==
  /\ ui.handlers[h].pc = "callGenerate"
  /\ ui.handlers[h].elapsed >= abortAfter
  /\ ui' = Throw(ui, h, "Request timed out. Please try again.")
  /\ UNCHANGED serverVars

\* callGenerate once fetch has settled with o, the timer not having run
\* out: <<"ok", the body read by res.json()>>, or <<"throw", message>>
callGenerate(o) ==
  IF o[1] = "reject"
  THEN <<"throw", o[2]>>
  ELSE LET r == o[2]
           json == IF r.body = Undefined
                   THEN <<"throw", "Unexpected token in JSON">>
                   ELSE <<"ok", r.body>>
           err == IF json[1] = "ok" THEN json[2] ELSE Obj(<<>>)
       IN  IF r.status < 200 \/ r.status > 299
           THEN <<"throw", ToStr(OrElse(Get(err, "error"), Str("Failed to generate")))>>
           ELSE json

\* fetch('/api/generate') settles with o before the timer runs out: the rest
\* of callGenerate and the click handler h up to its next await
GenerateFetched(h, o) ==
  /\ ui.handlers[h].pc = "callGenerate"
  /\ LET json == callGenerate(o)
         html == generateResumeHtml(Get(json[2], "resume"))
     IN  ui' = IF json[1] = "throw"
               THEN Throw(ui, h, json[2])
               ELSE IF html[1] = "throw"
               THEN Throw(ui, h, html[2])
               ELSE switchTo([ui EXCEPT !.lastResumeHtml = html[2],
                                        !.previewInner = html[2],
                                        !.handlers[h].pc = "saveResumeToHistory",
                                        !.handlers[h].html = html[2]],
                             "generate")
  /\ UNCHANGED serverVars

\* saveResumeToHistory(targetText, html) settles; its rejection is ignored
SaveSettled(h, o) ==
  /\ ui.handlers[h].pc = "saveResumeToHistory"
  /\ o = "resolve" => Len(ui.resumeHistory) < MaxHistory
  /\ ui' = [ui EXCEPT !.handlers[h].pc = "loadHistory",
                      !.resumeHistory =
                         IF o = "resolve"
                         THEN <<HistoryItem(ui.handlers[h].targetText, ui.handlers[h].html)>> \o @
                         ELSE @]
  /\ UNCHANGED serverVars

\* loadHistory(): getResumeHistory() has settled with o
loadHistory(u, o) ==
  [u EXCEPT !.historyList = IF o = "resolve" THEN u.resumeHistory ELSE <<>>]

\* the loadHistory() awaited by the click handler h settles: the finally clause
HistoryLoaded(h, o) ==
  /\ ui.handlers[h].pc = "loadHistory"
  /\ ui' = Finally(loadHistory(ui, o), h)
  /\ UNCHANGED serverVars

\* the loadHistory() of renderApp settles
FirstHistoryLoaded(o) ==
  /\ ui.loading
  /\ ui' = [loadHistory(ui, o) EXCEPT !.loading = FALSE]
  /\ UNCHANGED serverVars

\* a click on the entry i of the history list
ClickHistoryItem(i) ==
  /\ i \in 1..Len(ui.historyList)
  /\ ui' = [ui EXCEPT !.textarea = ui.historyList[i].targetText,
                      !.previewInner = ui.historyList[i].resumeHtml,
                      !.lastResumeHtml = ui.historyList[i].resumeHtml]
  /\ UNCHANGED serverVars

\* a click on the PDF or the DOCX button: exportAsPdf or exportAsDocx is
\* called with lastResumeHtml (ui.exported is the latest such call)
ClickExport(kind) ==
  /\ ui' = IF ui.lastResumeHtml = ""
           THEN [ui EXCEPT !.alert = Str("Generate a resume first.")]
           ELSE [ui EXCEPT !.exported = <<kind, ui.lastResumeHtml>>]
  /\ UNCHANGED serverVars

NextUI ==
  \/ \E t \in TargetInputs : TypeTarget(t)
  \/ \E h \in 1..MaxHandlers : ClickGenerate(h)
  \/ \E h \in 1..MaxHandlers, o \in GetAboutMeOutcomes : GetAboutMeSettled(h, o)
  \/ \E h \in 1..MaxHandlers, o \in FetchAboutMeOutcomes : FetchAboutMeSettled(h, o)
  \/ Elapse
  \/ \E h \in 1..MaxHandlers : AbortFetch(h)
  \/ \E h \in 1..MaxHandlers, o \in FetchOutcomes : GenerateFetched(h, o)
  \/ \E h \in 1..MaxHandlers, o \in {"resolve", "reject"} : SaveSettled(h, o)
  \/ \E h \in 1..MaxHandlers, o \in {"resolve", "reject"} : HistoryLoaded(h, o)
  \/ \E o \in {"resolve", "reject"} : FirstHistoryLoaded(o)
  \/ \E i \in 1..MaxHistory : ClickHistoryItem(i)
  \/ \E kind \in {"pdf", "docx"} : ClickExport(kind)

\* the client generating, browsing its history and exporting.  The browser
\* runs a timer that is due: the clock advances and the abort timer of
\* callGenerate fires; nothing makes the other awaits settle
SpecUI ==
  /\ InitUI
  /\ [][NextUI]_vars
  /\ WF_vars(Elapse)
  /\ WF_vars(\E h \in 1..MaxHandlers : AbortFetch(h))

\* the outcomes of fetch('/api/generate') while the tabs are clicked: a
\* resume, and a failure
TabFetchOutcomes ==
  { <<"response", Answer(JSONParse("{}"))>>,
    <<"response", Answer(<<"throw", "400 Unsupported parameter">>)>> }

NextTabs ==
  \/ \E key \in {"about", "generate", "template"} : ClickTab(key)
  \/ \E key \in {"about", "generate"} : ClickTabTwoTab(key)
  \/ \E t \in TargetInputs : TypeTarget(t)
  \/ \E h \in 1..MaxHandlers : ClickGenerate(h)
  \/ \E h \in 1..MaxHandlers : GetAboutMeSettled(h, <<"resolve", "I am Bo.">>)
  \/ Elapse
  \/ \E h \in 1..MaxHandlers : AbortFetch(h)
  \/ \E h \in 1..MaxHandlers, o \in TabFetchOutcomes : GenerateFetched(h, o)
  \/ \E h \in 1..MaxHandlers : SaveSettled(h, "reject")
  \/ \E h \in 1..MaxHandlers : HistoryLoaded(h, "resolve")

\* the client with its tabs clicked while it generates
SpecTabs == InitUI /\ [][NextTabs]_vars

(***************************************************************************)
(* Claims about the browser client.                                        *)
(***************************************************************************)
\* the tabs that carry the class 'active'
ActiveTabs(tabs) == {t \in DOMAIN tabs : "active" \in tabs[t]}

\* the pages that do not carry the class 'hidden'
VisiblePages(pages) == {p \in DOMAIN pages : "hidden" \notin pages[p]}

(***************************************************************************)
(* C28.  Whatever tabs were clicked and whatever switchTo calls the click  *)
(* handler made, exactly one tab carries the class 'active', exactly one   *)
(* page is visible, and the visible page is that of the active tab; in the *)
(* client with three tabs and in the client with two.                      *)
(***************************************************************************)
C28_OneActiveTab ==
  /\ Cardinality(ActiveTabs(ui.tabs)) = 1
  /\ Cardinality(VisiblePages(ui.pages)) = 1
  /\ VisiblePages(ui.pages) = ActiveTabs(ui.tabs)
  /\ Cardinality(ActiveTabs(ui.tabsTwoTab)) = 1
  /\ Cardinality(VisiblePages(ui.pagesTwoTab)) = 1
  /\ VisiblePages(ui.pagesTwoTab) = ActiveTabs(ui.tabsTwoTab)

\* the template tab was clicked after a generation had switched to the
\* generate tab, and the generate tab of the other client is active
C28_Witness ==
  /\ ui.lastResumeHtml # ""
  /\ ActiveTabs(ui.tabs) = {"template"}
  /\ ActiveTabs(ui.tabsTwoTab) = {"generate"}

\* the step is a generation started by the Generate button failing: the
\* click handler h reaches its catch clause
GenerationFails(h) ==
  /\ ui'.handlers[h].pc = "idle"
  /\ \/ ui.handlers[h].pc \in {"getAboutMe", "fetchAboutMe", "callGenerate"}
     \/ ClickGenerate(h)

(***************************************************************************)
(* C29.  lastResumeHtml is empty while the preview shows the placeholder,  *)
(* or it is the HTML the preview shows; a click on the PDF or the DOCX     *)
(* button calls its exporter only with a lastResumeHtml that is not empty; *)
(* and a generation that fails leaves lastResumeHtml and the preview as    *)
(* they were.                                                              *)
(***************************************************************************)
C29_PreviewAndExport ==
  /\ [](\/ ui.lastResumeHtml = "" /\ ui.previewInner = Placeholder
        \/ ui.lastResumeHtml # "" /\ ui.previewInner = ui.lastResumeHtml)
  /\ [](ui.exported # None => ui.exported[2] # "")
  /\ [][ui.exported' # ui.exported =>
          ui.lastResumeHtml # "" /\ ui.exported'[2] = ui.lastResumeHtml]_vars
  /\ [][\A h \in 1..MaxHandlers :
          GenerationFails(h) =>
            /\ ui.lastResumeHtml' = ui.lastResumeHtml
            /\ ui.previewInner' = ui.previewInner]_vars

\* a resume was generated and exported, and the generation after it timed
\* out with the resume still in the preview
C29_Witness ==
  /\ ui.lastResumeHtml # ""
  /\ ui.previewInner = ui.lastResumeHtml
  /\ ui.exported = <<"pdf", ui.lastResumeHtml>>
  /\ ui.alert = Str("Request timed out. Please try again.")
  /\ ~ui.generateBtn.disabled

\* the message callGenerate reports when its timer has run out
TimeoutMessage == "Request timed out. Please try again."

\* the step is the generate call of the click handler h failing
CallFails(h) ==
  /\ ui.handlers[h].pc = "callGenerate"
  /\ ui'.handlers[h].pc = "idle"

(***************************************************************************)
(* C21.  When the timer of callGenerate runs out before fetch has settled, *)
(* the call ends (its handler returns, the button is enabled again) and    *)
(* the client reports 'Request timed out. Please try again.'; no other     *)
(* failure of the generate call is reported with that message: not the     *)
(* message of any failure fetch can settle with, and none before the timer *)
(* has run out.                                                            *)
(***************************************************************************)
C21_TimeoutMessageDistinct ==
  /\ [](\A o \in FetchOutcomes :
          callGenerate(o)[1] = "throw" => callGenerate(o)[2] # TimeoutMessage)
  /\ [][\A h \in 1..MaxHandlers :
          /\ AbortFetch(h) =>
               /\ ui'.alert = Str(TimeoutMessage)
               /\ ui'.handlers[h].pc = "idle"
               /\ ~ui'.generateBtn.disabled
          /\ (CallFails(h) /\ ui'.alert = Str(TimeoutMessage)) =>
               /\ ui.handlers[h].elapsed >= abortAfter
               /\ ~\E o \in FetchOutcomes : GenerateFetched(h, o)]_vars

\* the timer ran out on a generate call and the client reported it
C21_Witness ==
  /\ ui.alert = Str(TimeoutMessage)
  /\ ~ui.generateBtn.disabled
  /\ \A h \in 1..MaxHandlers : ui.handlers[h].pc = "idle"

\* the click handlers of the Generate button that are running
Running == {h \in 1..MaxHandlers : ui.handlers[h].pc # "idle"}

\* the generate requests of the client that are in flight
InFlight == {h \in 1..MaxHandlers : ui.handlers[h].pc = "callGenerate"}

\* a generation has had its outcome, a resume now in the preview, and its
\* click handler is still running
Generated ==
  \E h \in 1..MaxHandlers : ui.handlers[h].pc \in {"saveResumeToHistory", "loadHistory"}

\* the Generate button as renderApp creates it
ButtonEnabled ==
  ~ui.generateBtn.disabled /\ ui.generateBtn.textContent = "Generate Resume"

(***************************************************************************)
(* C27.  The Generate button is disabled for as long as a generation       *)
(* started by it is in progress, so at most one generate request of the    *)
(* client is in flight; a generation that fails (validation error, server  *)
(* error, timeout) leaves the button enabled with the label 'Generate      *)
(* Resume', and after a generation that succeeds the button is eventually  *)
(* enabled again with that label.                                          *)
(***************************************************************************)
C27_ButtonBusyThenEnabled ==
  /\ [](Running # {} => ui.generateBtn.disabled)
  /\ [](Cardinality(Running) <= 1 /\ Cardinality(InFlight) <= 1)
  /\ [][\A h \in 1..MaxHandlers : GenerationFails(h) => ButtonEnabled']_vars
  /\ (Generated ~> ButtonEnabled)

====
